---- MODULE Spec2Model ----
(***************************************************************************)
(* LogFlux collection subsystem: the three sources (FileReader,            *)
(* SyslogReceiver, HTTPReceiver), the shared bounded queue they offer      *)
(* into, the cancellation tokens their background tasks watch, and the     *)
(* consumer that drains the queue.                                         *)
(*                                                                         *)
(* One collector run drives one source (cmd/collector/main.go selects a    *)
(* mode); `mode` is drawn in Init.  Callers (`Users`) invoke Start and     *)
(* Stop on that instance in any order and concurrently, as the tests do.   *)
(***************************************************************************)
EXTENDS Integers, Sequences, FiniteSets, TLC

----------------------------------------------------------------------------
(* Bounds of the model *)

MaxStarts == 2     \* Start calls made by the callers
MaxStops == 2      \* Stop calls made by the callers
QueueCap == 1      \* capacity of the channel
MaxFileLen == 2    \* bytes ever written to the tailed file
MaxSends == 1      \* datagrams / TCP lines / HTTP requests sent by peers
MaxConns == 1      \* TCP connections opened by peers
NumTokens == 1     \* contexts the callers hold
MaxBurst == 2      \* messages / requests the peers send while the collector is in service

Users == {"u1", "u2"}
Modes == {"file", "udp", "tcp", "badproto", "http"}
SyslogModes == {"udp", "tcp", "badproto"}
NL == "\n"
Chars == {"a", NL}

VARIABLES
    mode,        \* which source the collector drives
    cancelled,   \* set of cancelled context tokens
    ntok,        \* number of contexts the callers created
    queue,       \* the buffered channel of *models.LogEntry
    closed,      \* whether the channel has been closed
    consumer,    \* position of processLogs
    pc,          \* position of each caller inside Start / Stop
    ret,         \* the last value a call of each caller returned
    arg,         \* Start call in progress: its ctx argument and the resource it set up
    nStart,      \* number of Start calls made so far
    nStop,       \* number of Stop calls made so far
    file,        \* bytes of the tailed file
    handles,     \* every *os.File opened so far: [open, pos, closes]
    fr_running,  \* FileReader.running
    fr_file,     \* FileReader.file (0 = nil)
    fr_offset,   \* FileReader.offset
    fr_loops,    \* every readLoop goroutine started so far
    nSend,       \* messages sent by network peers so far
    nConn,       \* TCP connections opened by peers so far
    socks,       \* every UDP socket / TCP listener bound so far: [open, closes, pending]
    conns,       \* every accepted TCP connection: [open, closes, lines]
    sr_running,  \* SyslogReceiver.running
    sr_listener, \* SyslogReceiver.listener (0 = nil)
    sr_mu,       \* holder of SyslogReceiver.mu
    sr_wg,       \* counter of SyslogReceiver.wg
    sr_tasks,    \* readUDP / acceptTCP / handleTCPConnection goroutines
    servers,     \* every http.Server created so far
    hr_running,  \* HTTPReceiver.running
    hr_server,   \* HTTPReceiver.server (0 = nil)
    hr_out,      \* HTTPReceiver.out (0 = nil)
    hr_mu,       \* holder of HTTPReceiver.mu
    hr_tasks     \* serve / watcher / handler goroutines of the HTTPReceiver

commonVars == <<mode, cancelled, ntok, closed, consumer, nStart, nStop>>
callVars == <<pc, ret, arg>>
frVars == <<file, handles, fr_running, fr_file, fr_offset, fr_loops>>
netVars == <<nSend, nConn>>
srVars == <<socks, conns, sr_running, sr_listener, sr_mu, sr_wg, sr_tasks>>
hrVars == <<servers, hr_running, hr_server, hr_out, hr_mu, hr_tasks>>
otherVars == <<netVars, srVars, hrVars>>
vars == <<commonVars, callVars, queue, frVars, netVars, srVars, hrVars>>

----------------------------------------------------------------------------
(* Helpers *)

NoRet == [op |-> "none", val |-> "none"]
NoArg == [tok |-> 0, res |-> 0]
Ret(o, v) == [op |-> o, val |-> v]

HasNL(s) == \E i \in 1..Len(s) : s[i] = NL
FirstNL(s) == CHOOSE i \in 1..Len(s) : s[i] = NL /\ \A j \in 1..(i-1) : s[j] # NL

Done(t) == t \in cancelled

Return(u, o, v) ==
    /\ pc' = [pc EXCEPT ![u] = "idle"]
    /\ ret' = [ret EXCEPT ![u] = Ret(o, v)]
    /\ arg' = [arg EXCEPT ![u] = NoArg]

Goto(u, p) ==
    /\ pc' = [pc EXCEPT ![u] = p]
    /\ UNCHANGED <<ret, arg>>

----------------------------------------------------------------------------
(* pkg/models: LogEntry *)

LevelDebug == "DEBUG"
LevelInfo == "INFO"
LevelWarning == "WARNING"
LevelError == "ERROR"
LevelCritical == "CRITICAL"

\* A map[string]interface{}: nil, or a set of key/value pairs.
NilMap == [isNil |-> TRUE, kv |-> {}]
MakeMap == [isNil |-> FALSE, kv |-> {}]

\* time.Time: the zero value, or the clock reading at creation.
ZeroTime == "zero"
TimeNow == "now"

\* NewLogEntry sets Timestamp, Level and Fields; ID, Source and Message keep
\* their zero value, the empty string.
NewLogEntry ==
    [id |-> "", timestamp |-> TimeNow, level |-> LevelInfo, source |-> "",
     message |-> "", fields |-> MakeMap]

----------------------------------------------------------------------------
(* Initial state: the objects as their constructors leave them *)

\* The collector drives the one source its mode names; a program that runs
\* several sources on one queue and one context is the mode "all": a
\* FileReader, a SyslogReceiver on TCP and an HTTPReceiver.
DrivesFile == mode \in {"file", "all"}
DrivesSyslog == mode \in SyslogModes \cup {"all"}
DrivesHTTP == mode \in {"http", "all"}

\* sr.protocol
Protocol == IF mode = "all" THEN "tcp" ELSE mode

\* Everything but the choice of the sources.
InitState ==
    /\ cancelled = {}
    /\ ntok = NumTokens
    /\ queue = <<>>
    /\ closed = FALSE
    /\ consumer = "ranging"
    /\ pc = [u \in Users |-> "idle"]
    /\ ret = [u \in Users |-> NoRet]
    /\ arg = [u \in Users |-> NoArg]
    /\ nStart = 0
    /\ nStop = 0
    /\ file = <<>>
    /\ handles = <<>>
    /\ fr_running = FALSE
    /\ fr_file = 0
    /\ fr_offset = 0
    /\ fr_loops = <<>>
    /\ nSend = 0
    /\ nConn = 0
    /\ socks = <<>>
    /\ conns = <<>>
    /\ sr_running = FALSE
    /\ sr_listener = 0
    /\ sr_mu = "free"
    /\ sr_wg = 0
    /\ sr_tasks = <<>>
    /\ servers = <<>>
    /\ hr_running = FALSE
    /\ hr_server = 0
    /\ hr_out = 0
    /\ hr_mu = "free"
    /\ hr_tasks = <<>>

Init == mode \in Modes /\ InitState

----------------------------------------------------------------------------
(* Environment: callers, contexts, the consumer, the tailed file *)

CallStart(u, t) ==
    /\ pc[u] = "idle"
    /\ nStart < MaxStarts
    /\ t \in 1..ntok
    /\ nStart' = nStart + 1
    /\ pc' = [pc EXCEPT ![u] = "Start"]
    /\ arg' = [arg EXCEPT ![u] = [tok |-> t, res |-> 0]]
    /\ ret' = [ret EXCEPT ![u] = NoRet]
    /\ UNCHANGED <<nStop, mode, cancelled, ntok, closed, consumer, queue, frVars, otherVars>>

CallStop(u) ==
    /\ pc[u] = "idle"
    /\ nStop < MaxStops
    /\ nStop' = nStop + 1
    /\ pc' = [pc EXCEPT ![u] = "Stop"]
    /\ ret' = [ret EXCEPT ![u] = NoRet]
    /\ UNCHANGED <<nStart, arg, mode, cancelled, ntok, closed, consumer, queue, frVars, otherVars>>

cancel(t) ==
    /\ t \in 1..ntok
    /\ t \notin cancelled
    /\ cancelled' = cancelled \cup {t}
    /\ UNCHANGED <<mode, ntok, closed, consumer, nStart, nStop, callVars, queue, frVars, otherVars>>

processLogs ==
    /\ consumer = "ranging"
    /\ IF queue # <<>>
       THEN queue' = Tail(queue) /\ UNCHANGED consumer
       ELSE closed /\ consumer' = "returned" /\ UNCHANGED queue
    /\ UNCHANGED <<mode, cancelled, ntok, closed, nStart, nStop, callVars, frVars, otherVars>>

AppendFile(c) ==
    /\ DrivesFile
    /\ Len(file) < MaxFileLen
    /\ file' = Append(file, c)
    /\ UNCHANGED <<commonVars, callVars, queue, handles, fr_running, fr_file,
                   fr_offset, fr_loops, otherVars>>

----------------------------------------------------------------------------
(* FileReader *)

\* os.File.Close on handle h: the result and the new table of handles.
CloseErr(h) == ~handles[h].open
Closed(h) == [handles EXCEPT ![h].open = FALSE, ![h].closes = @ + 1]

\* The body of FileReader.Stop, run under fr.mu: the value it returns.
FileReaderStopRet ==
    IF fr_running /\ fr_file # 0 /\ CloseErr(fr_file) THEN "close_error" ELSE "nil"

\* The body of FileReader.Stop, run under fr.mu: its effect on the reader.
FileReaderStopEffect ==
    IF ~fr_running
    THEN UNCHANGED <<fr_running, handles>>
    ELSE /\ fr_running' = FALSE
         /\ handles' = IF fr_file # 0 THEN Closed(fr_file) ELSE handles

\* Start with the check and the set of the flag torn apart: the flag is left
\* for a later step that never comes.
FileReaderStartCheckNoSet(u) ==
    /\ DrivesFile
    /\ pc[u] = "Start"
    /\ IF fr_running
       THEN Return(u, "Start", "already_running")
       ELSE Goto(u, "Start_open")
    /\ UNCHANGED <<commonVars, queue, file, handles, fr_running, fr_file, fr_offset,
                   fr_loops, otherVars>>

FileReaderStartCheck(u) ==
    /\ DrivesFile
    /\ pc[u] = "Start"
    /\ IF fr_running
       THEN /\ Return(u, "Start", "already_running")
            /\ UNCHANGED fr_running
       ELSE /\ fr_running' = TRUE
            /\ Goto(u, "Start_open")
    /\ UNCHANGED <<commonVars, queue, file, handles, fr_file, fr_offset, fr_loops, otherVars>>

FileReaderStartOpen(u) ==
    /\ DrivesFile
    /\ pc[u] = "Start_open"
    /\ \E ok \in BOOLEAN :
         IF ok
         THEN /\ handles' = Append(handles, [open |-> TRUE, pos |-> 0, closes |-> 0])
              /\ fr_file' = Len(handles) + 1
              /\ Goto(u, "Start_seek")
         ELSE /\ Return(u, "Start", "setup_error")
              /\ UNCHANGED <<handles, fr_file>>
    /\ UNCHANGED <<commonVars, queue, file, fr_running, fr_offset, fr_loops, otherVars>>

FileReaderStartSeek(u) ==
    /\ DrivesFile
    /\ pc[u] = "Start_seek"
    /\ IF fr_offset > 0 /\ ~handles[fr_file].open
       THEN /\ Return(u, "Start", "setup_error")
            /\ UNCHANGED <<handles, fr_loops>>
       ELSE /\ handles' = IF fr_offset > 0
                          THEN [handles EXCEPT ![fr_file].pos = fr_offset]
                          ELSE handles
            /\ fr_loops' = Append(fr_loops,
                   [pc |-> "init", tok |-> arg[u].tok, h |-> 0, rbuf |-> <<>>, line |-> <<>>])
            /\ Return(u, "Start", "nil")
    /\ UNCHANGED <<commonVars, queue, file, fr_running, fr_file, fr_offset, otherVars>>

FileReaderStop(u) ==
    /\ DrivesFile
    /\ pc[u] = "Stop"
    /\ FileReaderStopEffect
    /\ Return(u, "Stop", FileReaderStopRet)
    /\ UNCHANGED <<commonVars, queue, file, fr_file, fr_offset, fr_loops, otherVars>>

Exited == [pc |-> "exited", tok |-> 0, h |-> 0, rbuf |-> <<>>, line |-> <<>>]

\* readLoop returns: the deferred fr.Stop() runs and the goroutine ends.
readLoopReturn(i) ==
    /\ FileReaderStopEffect
    /\ fr_loops' = [fr_loops EXCEPT ![i] = Exited]

readLoopInit(i) ==
    /\ i \in DOMAIN fr_loops
    /\ fr_loops[i].pc = "init"
    /\ fr_loops' = [fr_loops EXCEPT ![i].pc = "select", ![i].h = fr_file]
    /\ UNCHANGED <<commonVars, callVars, queue, file, handles, fr_running, fr_file, fr_offset, otherVars>>

readLoopCtxDone(i) ==
    /\ i \in DOMAIN fr_loops
    /\ fr_loops[i].pc = "select"
    /\ Done(fr_loops[i].tok)
    /\ readLoopReturn(i)
    /\ UNCHANGED <<commonVars, callVars, queue, file, fr_file, fr_offset, otherVars>>

readLoopTick(i) ==
    /\ i \in DOMAIN fr_loops
    /\ fr_loops[i].pc = "select"
    /\ fr_loops' = [fr_loops EXCEPT ![i].pc = "read"]
    /\ UNCHANGED <<commonVars, callVars, queue, file, handles, fr_running, fr_file, fr_offset, otherVars>>

\* readLoop holding the context's cancel function and calling it on a fatal
\* read error: every source started with that context is told to end.
readLoopReadCancels(i) ==
    LET l == fr_loops[i]
        avail == SubSeq(file, handles[l.h].pos + 1, Len(file))
        data == IF HasNL(l.rbuf) THEN l.rbuf ELSE l.rbuf \o avail
        filled == [handles EXCEPT ![l.h].pos = Len(file)]
    IN
    /\ i \in DOMAIN fr_loops
    /\ l.pc = "read"
    /\ \E ioerr \in BOOLEAN :
         IF ~HasNL(l.rbuf) /\ (ioerr \/ ~handles[l.h].open)
         THEN /\ readLoopReturn(i)
              /\ cancelled' = cancelled \cup {l.tok}
              /\ UNCHANGED fr_offset
         ELSE IF HasNL(data)
         THEN LET n == FirstNL(data) IN
              /\ fr_loops' = [fr_loops EXCEPT ![i].pc = "offer",
                                              ![i].line = SubSeq(data, 1, n),
                                              ![i].rbuf = SubSeq(data, n + 1, Len(data))]
              /\ fr_offset' = fr_offset + n
              /\ handles' = IF HasNL(l.rbuf) THEN handles ELSE filled
              /\ UNCHANGED <<fr_running, cancelled>>
         ELSE /\ fr_loops' = [fr_loops EXCEPT ![i].pc = "select", ![i].rbuf = <<>>]
              /\ handles' = filled
              /\ UNCHANGED <<fr_running, fr_offset, cancelled>>
    /\ UNCHANGED <<mode, ntok, closed, consumer, nStart, nStop, callVars, queue, file,
                   fr_file, otherVars>>

\* reader.ReadString('\n') on the loop's bufio.Reader, then the offset update.
\* A line already in the buffer is returned without touching the file; else the
\* reader reads the file, and the read fails (ioerr) or gives what the file
\* holds beyond the handle's position.  A closed handle always fails.
readLoopRead(i) ==
    LET l == fr_loops[i]
        avail == SubSeq(file, handles[l.h].pos + 1, Len(file))
        data == IF HasNL(l.rbuf) THEN l.rbuf ELSE l.rbuf \o avail
        filled == [handles EXCEPT ![l.h].pos = Len(file)]
    IN
    /\ i \in DOMAIN fr_loops
    /\ l.pc = "read"
    /\ \E ioerr \in BOOLEAN :
         IF ~HasNL(l.rbuf) /\ (ioerr \/ ~handles[l.h].open)
         THEN /\ readLoopReturn(i)
              /\ UNCHANGED fr_offset
         ELSE IF HasNL(data)
         THEN LET n == FirstNL(data) IN
              /\ fr_loops' = [fr_loops EXCEPT ![i].pc = "offer",
                                              ![i].line = SubSeq(data, 1, n),
                                              ![i].rbuf = SubSeq(data, n + 1, Len(data))]
              /\ fr_offset' = fr_offset + n
              /\ handles' = IF HasNL(l.rbuf) THEN handles ELSE filled
              /\ UNCHANGED fr_running
         ELSE /\ fr_loops' = [fr_loops EXCEPT ![i].pc = "select", ![i].rbuf = <<>>]
              /\ handles' = filled
              /\ UNCHANGED <<fr_running, fr_offset>>
    /\ UNCHANGED <<commonVars, callVars, queue, file, fr_file, otherVars>>

\* entry.Source is the reader's file path, written "file" here.
parseSimpleLine(line) == [NewLogEntry EXCEPT !.source = "file", !.message = line]

\* The offer as the HTTP handlers make it, select with a default case: a full
\* queue drops the entry.
readLoopOfferOrDrop(i) ==
    /\ i \in DOMAIN fr_loops
    /\ fr_loops[i].pc = "offer"
    /\ queue' = IF Len(queue) < QueueCap
                THEN Append(queue, parseSimpleLine(fr_loops[i].line))
                ELSE queue
    /\ fr_loops' = [fr_loops EXCEPT ![i].pc = "read", ![i].line = <<>>]
    /\ UNCHANGED <<commonVars, callVars, file, handles, fr_running, fr_file, fr_offset, otherVars>>

readLoopOffer(i) ==
    /\ i \in DOMAIN fr_loops
    /\ fr_loops[i].pc = "offer"
    /\ Len(queue) < QueueCap
    /\ queue' = Append(queue, parseSimpleLine(fr_loops[i].line))
    /\ fr_loops' = [fr_loops EXCEPT ![i].pc = "read", ![i].line = <<>>]
    /\ UNCHANGED <<commonVars, callVars, file, handles, fr_running, fr_file, fr_offset, otherVars>>

\* The offer as a bare `out <- entry`: cancellation does not end it.
readLoopOfferNoCtxDone(i) ==
    /\ i \in DOMAIN fr_loops
    /\ fr_loops[i].pc = "offer"
    /\ FALSE
    /\ UNCHANGED vars

readLoopOfferCtxDone(i) ==
    /\ i \in DOMAIN fr_loops
    /\ fr_loops[i].pc = "offer"
    /\ Done(fr_loops[i].tok)
    /\ readLoopReturn(i)
    /\ UNCHANGED <<commonVars, callVars, queue, file, fr_file, fr_offset, otherVars>>

----------------------------------------------------------------------------
(* SyslogReceiver *)

srRest == <<queue, frVars, netVars, hrVars>>

CloseSock(s) == [socks EXCEPT ![s].open = FALSE, ![s].closes = @ + 1]
CloseConn(c) == [conns EXCEPT ![c].open = FALSE, ![c].closes = @ + 1]

SrExited(k) == [kind |-> k, pc |-> "exited", tok |-> 0, res |-> 0, msg |-> <<>>]

\* Texts are sequences of one-character strings.
\* strings.HasPrefix
HasPrefix(s, prefix) ==
    Len(s) >= Len(prefix) /\ SubSeq(s, 1, Len(prefix)) = prefix

\* strings.Index for a one-character substr: the index, counted from 0, of its
\* first occurrence in s, -1 when there is none.
Index(s, c) ==
    IF \E k \in 1..Len(s) : s[k] = c
    THEN (CHOOSE k \in 1..Len(s) : s[k] = c /\ \A j \in 1..(k - 1) : s[j] # c) - 1
    ELSE -1

\* strings.Contains
Contains(s, substr) ==
    \E k \in 0..(Len(s) - Len(substr)) : SubSeq(s, k + 1, k + Len(substr)) = substr

UpperCase == <<"A", "B", "C", "D", "E", "F", "G", "H", "I", "J", "K", "L", "M",
               "N", "O", "P", "Q", "R", "S", "T", "U", "V", "W", "X", "Y", "Z">>
LowerCase == <<"a", "b", "c", "d", "e", "f", "g", "h", "i", "j", "k", "l", "m",
               "n", "o", "p", "q", "r", "s", "t", "u", "v", "w", "x", "y", "z">>

\* strings.ToLower on texts of ASCII characters.
ToLower(s) ==
    [k \in 1..Len(s) |->
        IF \E j \in 1..26 : UpperCase[j] = s[k]
        THEN LowerCase[CHOOSE j \in 1..26 : UpperCase[j] = s[k]]
        ELSE s[k]]

\* The switch with the err case ahead of the crit case.
syslogLevelErrFirst(lowerMsg) ==
    CASE Contains(lowerMsg, <<"e", "r", "r">>)
         \/ Contains(lowerMsg, <<"e", "r", "r", "o", "r">>) -> LevelError
      [] Contains(lowerMsg, <<"c", "r", "i", "t">>)
         \/ Contains(lowerMsg, <<"e", "m", "e", "r", "g">>)
         \/ Contains(lowerMsg, <<"a", "l", "e", "r", "t">>) -> LevelCritical
      [] Contains(lowerMsg, <<"w", "a", "r", "n">>) -> LevelWarning
      [] Contains(lowerMsg, <<"d", "e", "b", "u", "g">>) -> LevelDebug
      [] OTHER -> LevelInfo

\* The switch of parseSyslogMessage on the keywords in the lower-cased text, in
\* the order of its cases.
syslogLevel(lowerMsg) ==
    IF Contains(lowerMsg, <<"c", "r", "i", "t">>)
       \/ Contains(lowerMsg, <<"e", "m", "e", "r", "g">>)
       \/ Contains(lowerMsg, <<"a", "l", "e", "r", "t">>) THEN LevelCritical
    ELSE IF Contains(lowerMsg, <<"e", "r", "r">>)
            \/ Contains(lowerMsg, <<"e", "r", "r", "o", "r">>) THEN LevelError
    ELSE IF Contains(lowerMsg, <<"w", "a", "r", "n">>) THEN LevelWarning
    ELSE IF Contains(lowerMsg, <<"d", "e", "b", "u", "g">>) THEN LevelDebug
    ELSE LevelInfo

\* parseSyslogMessage without the upper limit on the index of '>'.
parseSyslogMessageAnyIndex(raw) ==
    LET endIdx == Index(raw, ">")
        found == HasPrefix(raw, <<"<">>) /\ endIdx > 0
        rest == IF found THEN SubSeq(raw, endIdx + 2, Len(raw)) ELSE raw
        priority == IF found THEN {<<"priority", SubSeq(raw, 2, endIdx)>>} ELSE {}
    IN  [NewLogEntry EXCEPT !.source = "syslog:" \o Protocol, !.message = raw,
                            !.fields = [isNil |-> FALSE,
                                        kv |-> priority \cup {<<"raw", rest>>}],
                            !.level = syslogLevel(ToLower(rest))]

\* parseSyslogMessage: the origin tag, the received text, the priority tag
\* (raw[1:endIdx], then raw = raw[endIdx+1:]), fields["raw"] and the level.
parseSyslogMessage(raw) ==
    LET endIdx == Index(raw, ">")
        found == HasPrefix(raw, <<"<">>) /\ endIdx > 0 /\ endIdx < 10
        rest == IF found THEN SubSeq(raw, endIdx + 2, Len(raw)) ELSE raw
        priority == IF found THEN {<<"priority", SubSeq(raw, 2, endIdx)>>} ELSE {}
    IN  [NewLogEntry EXCEPT !.source = "syslog:" \o Protocol, !.message = raw,
                            !.fields = [isNil |-> FALSE,
                                        kv |-> priority \cup {<<"raw", rest>>}],
                            !.level = syslogLevel(ToLower(rest))]

SyslogStartCheck(u) ==
    /\ DrivesSyslog
    /\ pc[u] = "Start"
    /\ sr_mu = "free"
    /\ IF sr_running
       THEN /\ Return(u, "Start", "already_running")
            /\ UNCHANGED sr_running
       ELSE /\ sr_running' = TRUE
            /\ Goto(u, "Start_listen")
    /\ UNCHANGED <<commonVars, socks, conns, sr_listener, sr_mu, sr_wg, sr_tasks, srRest>>

\* The protocol switch, then net.ResolveUDPAddr / net.ListenUDP or net.Listen.
SyslogStartListen(u) ==
    /\ DrivesSyslog
    /\ pc[u] = "Start_listen"
    /\ \E ok \in BOOLEAN :
         IF Protocol = "badproto" \/ ~ok
         THEN /\ Return(u, "Start", "setup_error")
              /\ UNCHANGED socks
         ELSE /\ socks' = Append(socks, [open |-> TRUE, closes |-> 0, pending |-> <<>>])
              /\ pc' = [pc EXCEPT ![u] = "Start_publish"]
              /\ arg' = [arg EXCEPT ![u].res = Len(socks) + 1]
              /\ UNCHANGED ret
    /\ UNCHANGED <<commonVars, conns, sr_running, sr_listener, sr_mu, sr_wg, sr_tasks, srRest>>

\* sr.mu.Lock(); sr.listener = conn; sr.mu.Unlock()
SyslogStartPublish(u) ==
    /\ pc[u] = "Start_publish"
    /\ sr_mu = "free"
    /\ sr_listener' = arg[u].res
    /\ Goto(u, "Start_go")
    /\ UNCHANGED <<commonVars, socks, conns, sr_running, sr_mu, sr_wg, sr_tasks, srRest>>

\* sr.wg.Add(1); go sr.readUDP / sr.acceptTCP; return nil
SyslogStartGo(u) ==
    /\ pc[u] = "Start_go"
    /\ sr_wg' = sr_wg + 1
    /\ sr_tasks' = Append(sr_tasks,
           [kind |-> IF Protocol = "udp" THEN "udp" ELSE "accept", pc |-> "top",
            tok |-> arg[u].tok, res |-> arg[u].res, msg |-> <<>>])
    /\ Return(u, "Start", "nil")
    /\ UNCHANGED <<commonVars, socks, conns, sr_running, sr_listener, sr_mu, srRest>>

\* Stop up to sr.wg.Wait(): the mutex stays held.
SyslogStop(u) ==
    /\ DrivesSyslog
    /\ pc[u] = "Stop"
    /\ sr_mu = "free"
    /\ IF ~sr_running
       THEN /\ Return(u, "Stop", "nil")
            /\ UNCHANGED <<sr_running, socks, sr_mu>>
       ELSE /\ sr_running' = FALSE
            /\ socks' = IF sr_listener # 0 THEN CloseSock(sr_listener) ELSE socks
            /\ sr_mu' = u
            /\ Goto(u, "Stop_wait")
    /\ UNCHANGED <<commonVars, conns, sr_listener, sr_wg, sr_tasks, srRest>>

\* sr.wg.Wait() returns, the deferred Unlock runs, Stop returns nil.
SyslogStopWait(u) ==
    /\ pc[u] = "Stop_wait"
    /\ sr_mu = u
    /\ sr_wg = 0
    /\ sr_mu' = "free"
    /\ Return(u, "Stop", "nil")
    /\ UNCHANGED <<commonVars, socks, conns, sr_running, sr_listener, sr_wg, sr_tasks, srRest>>

\* What a message may start with: nothing, a priority tag (empty, short, with
\* its '>' at index 9 and at index 10, unclosed, unopened, made of a keyword),
\* a tag that is not at the start.
Tags ==
    { <<>>,
      <<"<", ">">>,
      <<"<", "3", "4", ">">>,
      <<"<", "1", "2", "3", "4", "5", "6", "7", "8", ">">>,
      <<"<", "1", "2", "3", "4", "5", "6", "7", "8", "9", ">">>,
      <<"<", "3", "4">>,
      <<"3", "4", ">">>,
      <<"<", "e", "r", "r", ">">>,
      <<"x", "<", "3", ">">> }

\* What may follow: nothing, texts without keyword, each keyword in lower or
\* upper case, texts with two keywords in either order, a text with a '>'.
Texts ==
    { <<>>,
      <<"o", "k">>,
      <<"T", "e", "s", "t", " ", "m", "e", "s", "s", "a", "g", "e">>,
      <<"c", "r", "i", "t">>,
      <<"C", "R", "I", "T">>,
      <<"e", "m", "e", "r", "g">>,
      <<"A", "l", "e", "r", "t">>,
      <<"e", "r", "r">>,
      <<"E", "r", "r", "o", "r">>,
      <<"w", "a", "r", "n">>,
      <<"W", "A", "R", "N">>,
      <<"d", "e", "b", "u", "g">>,
      <<"c", "r", "i", "t", "i", "c", "a", "l", " ", "e", "r", "r", "o", "r">>,
      <<"e", "r", "r", "o", "r", " ", "c", "r", "i", "t", "i", "c", "a", "l">>,
      <<"e", "r", "r", " ", "w", "a", "r", "n">>,
      <<"d", "e", "b", "u", "g", " ", "w", "a", "r", "n">>,
      <<"a", ">", "b">> }

\* The messages the syslog peers send: a tag followed by a text, never empty
\* (readUDP skips an empty datagram and handleTCPConnection an empty line).
RawMessages == { tag \o text : tag \in Tags, text \in Texts } \ { <<>> }

\* The text of the n-th message the peers send.
Message(n) == <<"m", ToString(n)>>

\* A peer sends one of the messages msgs in a datagram to a bound UDP socket;
\* the peers send at most max messages in all.
SendUDPFrom(s, msgs, max) ==
    /\ Protocol = "udp"
    /\ s \in DOMAIN socks
    /\ nSend < max
    /\ socks[s].open
    /\ nSend' = nSend + 1
    /\ \E m \in msgs : socks' = [socks EXCEPT ![s].pending = Append(@, m)]
    /\ UNCHANGED <<commonVars, callVars, queue, frVars, nConn, conns, sr_running,
                   sr_listener, sr_mu, sr_wg, sr_tasks, hrVars>>

\* The peers number their messages.
SendUDPUpTo(s, max) == SendUDPFrom(s, {Message(nSend + 1)}, max)

SendUDP(s) == SendUDPUpTo(s, MaxSends)

\* A peer connects to a listening TCP socket.
ConnectTCP(s) ==
    /\ Protocol = "tcp"
    /\ s \in DOMAIN socks
    /\ nConn < MaxConns
    /\ socks[s].open
    /\ nConn' = nConn + 1
    /\ socks' = [socks EXCEPT ![s].pending = Append(@, "conn")]
    /\ UNCHANGED <<commonVars, callVars, queue, frVars, nSend, conns, sr_running,
                   sr_listener, sr_mu, sr_wg, sr_tasks, hrVars>>

\* A peer writes one of the messages msgs as a line on an accepted connection;
\* the peers send at most max messages in all.
SendLineFrom(c, msgs, max) ==
    /\ c \in DOMAIN conns
    /\ nSend < max
    /\ conns[c].open
    /\ nSend' = nSend + 1
    /\ \E m \in msgs : conns' = [conns EXCEPT ![c].lines = Append(@, m)]
    /\ UNCHANGED <<commonVars, callVars, queue, frVars, nConn, socks, sr_running,
                   sr_listener, sr_mu, sr_wg, sr_tasks, hrVars>>

SendLineUpTo(c, max) == SendLineFrom(c, {Message(nSend + 1)}, max)

SendLine(c) == SendLineUpTo(c, MaxSends)

\* The top of a loop of readUDP, acceptTCP or handleTCPConnection: the select on
\* ctx.Done(); on return the deferred Close and wg.Done run.
srLoopTop(i) ==
    LET t == sr_tasks[i] IN
    /\ i \in DOMAIN sr_tasks
    /\ t.pc = "top"
    /\ IF Done(t.tok)
       THEN /\ sr_tasks' = [sr_tasks EXCEPT ![i] = SrExited(t.kind)]
            /\ sr_wg' = sr_wg - 1
            /\ socks' = IF t.kind = "conn" THEN socks ELSE CloseSock(t.res)
            /\ conns' = IF t.kind = "conn" THEN CloseConn(t.res) ELSE conns
       ELSE /\ sr_tasks' = [sr_tasks EXCEPT ![i].pc = "io"]
            /\ UNCHANGED <<sr_wg, socks, conns>>
    /\ UNCHANGED <<commonVars, callVars, sr_running, sr_listener, sr_mu, srRest>>

\* conn.ReadFromUDP under its 1 s deadline.
readUDP(i) ==
    LET t == sr_tasks[i] IN
    /\ i \in DOMAIN sr_tasks
    /\ t.kind = "udp" /\ t.pc = "io"
    /\ IF socks[t.res].open /\ socks[t.res].pending # <<>>
       THEN /\ socks' = [socks EXCEPT ![t.res].pending = Tail(@)]
            /\ sr_tasks' = [sr_tasks EXCEPT ![i].pc = "offer",
                                            ![i].msg = Head(socks[t.res].pending)]
       ELSE /\ sr_tasks' = [sr_tasks EXCEPT ![i].pc = "top"]
            /\ UNCHANGED socks
    /\ UNCHANGED <<commonVars, callVars, conns, sr_running, sr_listener, sr_mu, sr_wg, srRest>>

\* listener.Accept under its 1 s deadline; an accepted connection gets its reader.
acceptTCP(i) ==
    LET t == sr_tasks[i] IN
    /\ i \in DOMAIN sr_tasks
    /\ t.kind = "accept" /\ t.pc = "io"
    /\ IF socks[t.res].open /\ socks[t.res].pending # <<>>
       THEN /\ socks' = [socks EXCEPT ![t.res].pending = Tail(@)]
            /\ conns' = Append(conns, [open |-> TRUE, closes |-> 0, lines |-> <<>>])
            /\ sr_wg' = sr_wg + 1
            /\ sr_tasks' = Append([sr_tasks EXCEPT ![i].pc = "top"],
                   [kind |-> "conn", pc |-> "top", tok |-> t.tok,
                    res |-> Len(conns) + 1, msg |-> <<>>])
       ELSE /\ sr_tasks' = [sr_tasks EXCEPT ![i].pc = "top"]
            /\ UNCHANGED <<socks, conns, sr_wg>>
    /\ UNCHANGED <<commonVars, callVars, sr_running, sr_listener, sr_mu, srRest>>

\* scanner.Scan with no read deadline: with nothing to read the reader blocks.
handleTCPConnectionNoDeadline(i) ==
    LET t == sr_tasks[i] IN
    /\ i \in DOMAIN sr_tasks
    /\ t.kind = "conn" /\ t.pc = "io"
    /\ conns[t.res].lines # <<>>
    /\ conns' = [conns EXCEPT ![t.res].lines = Tail(@)]
    /\ sr_tasks' = [sr_tasks EXCEPT ![i].pc = "offer", ![i].msg = Head(conns[t.res].lines)]
    /\ UNCHANGED <<commonVars, callVars, socks, sr_running, sr_listener, sr_mu, sr_wg, srRest>>

\* scanner.Scan under the 5 s read deadline: a line, or false (deadline passed,
\* peer closed, read error) and the reader returns.
handleTCPConnection(i) ==
    LET t == sr_tasks[i] IN
    /\ i \in DOMAIN sr_tasks
    /\ t.kind = "conn" /\ t.pc = "io"
    /\ IF conns[t.res].lines # <<>>
       THEN /\ conns' = [conns EXCEPT ![t.res].lines = Tail(@)]
            /\ sr_tasks' = [sr_tasks EXCEPT ![i].pc = "offer",
                                            ![i].msg = Head(conns[t.res].lines)]
            /\ UNCHANGED sr_wg
       ELSE /\ conns' = CloseConn(t.res)
            /\ sr_tasks' = [sr_tasks EXCEPT ![i] = SrExited(t.kind)]
            /\ sr_wg' = sr_wg - 1
    /\ UNCHANGED <<commonVars, callVars, socks, sr_running, sr_listener, sr_mu, srRest>>

\* select { case out <- entry: ... }
srOffer(i) ==
    LET t == sr_tasks[i] IN
    /\ i \in DOMAIN sr_tasks
    /\ t.pc = "offer"
    /\ Len(queue) < QueueCap
    /\ queue' = Append(queue, parseSyslogMessage(t.msg))
    /\ sr_tasks' = [sr_tasks EXCEPT ![i].pc = "top", ![i].msg = <<>>]
    /\ UNCHANGED <<commonVars, callVars, frVars, netVars, socks, conns, sr_running,
                   sr_listener, sr_mu, sr_wg, hrVars>>

\* select { ... case <-ctx.Done(): return }
srOfferCtxDone(i) ==
    LET t == sr_tasks[i] IN
    /\ i \in DOMAIN sr_tasks
    /\ t.pc = "offer"
    /\ Done(t.tok)
    /\ sr_tasks' = [sr_tasks EXCEPT ![i] = SrExited(t.kind)]
    /\ sr_wg' = sr_wg - 1
    /\ socks' = IF t.kind = "conn" THEN socks ELSE CloseSock(t.res)
    /\ conns' = IF t.kind = "conn" THEN CloseConn(t.res) ELSE conns
    /\ UNCHANGED <<commonVars, callVars, sr_running, sr_listener, sr_mu, srRest>>

----------------------------------------------------------------------------
(* HTTPReceiver *)

hrRest == <<frVars, nConn, srVars>>

HrExited(k, st) == [kind |-> k, pc |-> "exited", tok |-> 0, srv |-> 0, status |-> st]

\* Connections of server s that are not idle: requests being read or handled.
Active(s) == {i \in DOMAIN hr_tasks : hr_tasks[i].kind = "handler"
                                      /\ hr_tasks[i].pc = "handle"
                                      /\ hr_tasks[i].srv = s}

\* http.Server.Shutdown: the listeners are closed and no new connection is taken.
Shutdown(s) == [servers EXCEPT ![s].inShutdown = TRUE, ![s].listening = FALSE,
                               ![s].shutdowns = @ + 1]

HTTPStartCheck(u) ==
    /\ DrivesHTTP
    /\ pc[u] = "Start"
    /\ hr_mu = "free"
    /\ IF hr_running
       THEN /\ Return(u, "Start", "already_running")
            /\ UNCHANGED <<hr_running, hr_out>>
       ELSE /\ hr_running' = TRUE
            /\ hr_out' = 1
            /\ Goto(u, "Start_server")
    /\ UNCHANGED <<commonVars, queue, nSend, servers, hr_server, hr_mu, hr_tasks, hrRest>>

\* hr.server = &http.Server{...}; the two go statements; return nil
HTTPStartServer(u) ==
    /\ pc[u] = "Start_server"
    /\ servers' = Append(servers, [listening |-> FALSE, inShutdown |-> FALSE, shutdowns |-> 0])
    /\ hr_server' = Len(servers) + 1
    /\ hr_tasks' = hr_tasks \o
          << [kind |-> "serve", pc |-> "start", tok |-> 0, srv |-> 0, status |-> 0],
             [kind |-> "watch", pc |-> "wait", tok |-> arg[u].tok, srv |-> 0, status |-> 0] >>
    /\ Return(u, "Start", "nil")
    /\ UNCHANGED <<commonVars, queue, nSend, hr_running, hr_out, hr_mu, hrRest>>

\* hr.server.ListenAndServe() in its goroutine: refused once the server is shutting
\* down, else the bind, which fails when the address is taken.
ListenAndServe(i) ==
    LET t == hr_tasks[i] IN
    /\ i \in DOMAIN hr_tasks
    /\ t.kind = "serve" /\ t.pc = "start"
    /\ \E ok \in BOOLEAN :
         IF servers[hr_server].inShutdown \/ ~ok
         THEN /\ hr_tasks' = [hr_tasks EXCEPT ![i] = HrExited("serve", 0)]
              /\ UNCHANGED servers
         ELSE /\ hr_tasks' = [hr_tasks EXCEPT ![i].pc = "serving", ![i].srv = hr_server]
              /\ servers' = [servers EXCEPT ![hr_server].listening = TRUE]
    /\ UNCHANGED <<commonVars, callVars, queue, nSend, hr_running, hr_server, hr_out,
                   hr_mu, hrRest>>

\* Serve returns http.ErrServerClosed once Shutdown has been called.
ServeReturn(i) ==
    LET t == hr_tasks[i] IN
    /\ i \in DOMAIN hr_tasks
    /\ t.kind = "serve" /\ t.pc = "serving"
    /\ servers[t.srv].inShutdown
    /\ hr_tasks' = [hr_tasks EXCEPT ![i] = HrExited("serve", 0)]
    /\ UNCHANGED <<commonVars, callVars, queue, nSend, servers, hr_running, hr_server,
                   hr_out, hr_mu, hrRest>>

\* What a handler has answered: the status code and the JSON of a 202.
NoResp == [id |-> "", total |-> 0, accepted |-> 0]
HandlerDone(st, resp) ==
    [kind |-> "handler", pc |-> "exited", tok |-> 0, srv |-> 0, status |-> st, resp |-> resp]

\* The decoded JSON object of a submission: an absent key leaves the zero value
\* (the empty string, the nil map), and so does JSON null.
EmptyObject == [level |-> "", message |-> "m", source |-> "", fields |-> NilMap]

\* A request: endpoint, method and body; body.ok says whether json.Unmarshal
\* accepts the body, body.items holds the decoded object(s).
Request(ep, method, ok, items) ==
    [ep |-> ep, method |-> method, body |-> [ok |-> ok, items |-> items]]

\* The requests of the collector's test tool: one object to /logs, an array to /batch.
BasicRequests ==
    { Request("logs", "POST", TRUE, <<EmptyObject>>),
      Request("batch", "POST", TRUE, <<EmptyObject, EmptyObject>>) }

\* The level strings a client may submit: the ten the handlers' switches name,
\* the absent level, a lower-case spelling and an unknown word.
SubmittedLevels ==
    {"DEBUG", "INFO", "WARNING", "WARN", "ERROR", "CRITICAL", "CRIT", "", "debug", "TRACE"}

\* A decoded object with every key present.
Object(level, message, source, fields) ==
    [level |-> level, message |-> message, source |-> source, fields |-> fields]

\* The objects the clients submit: each level with the other keys absent, then
\* a source of the client's own, a fields object, an empty fields object.
Objects ==
    { Object(l, "m1", "", NilMap) : l \in SubmittedLevels }
    \cup { Object("ERROR", "m1", "app", NilMap),
           Object("", "m1", "", [isNil |-> FALSE, kv |-> {<<"k", "v">>}]),
           Object("", "m1", "", MakeMap) }

\* The arrays the clients submit to /batch: the empty array, every object on
\* its own, and arrays of two objects that differ in message and level.
Arrays ==
    { <<>> } \cup { <<d>> : d \in Objects }
    \cup { <<Object("CRIT", "m1", "", NilMap), Object("DEBUG", "m2", "app", NilMap)>>,
           <<Object("", "m1", "", NilMap), Object("WARN", "m2", "", NilMap)>> }

\* Every request a client may send to the two submission endpoints: a wrong
\* method, a body that is not the expected JSON, and the well-formed ones.
APIRequests ==
    { Request(ep, "GET", TRUE, <<>>) : ep \in {"logs", "batch"} }
    \cup { Request(ep, "POST", FALSE, <<>>) : ep \in {"logs", "batch"} }
    \cup { Request("logs", "POST", TRUE, <<d>>) : d \in Objects }
    \cup { Request("batch", "POST", TRUE, a) : a \in Arrays }

\* The switch on logData.Level in handleLogs.
logsLevel(l) ==
    CASE l = "DEBUG" -> LevelDebug
      [] l = "INFO" -> LevelInfo
      [] l \in {"WARNING", "WARN"} -> LevelWarning
      [] l = "ERROR" -> LevelError
      [] l \in {"CRITICAL", "CRIT"} -> LevelCritical
      [] OTHER -> LevelInfo

\* The switch of handleBatch without the short spellings WARN and CRIT.
batchLevelLongNames(l) ==
    CASE l = "DEBUG" -> LevelDebug
      [] l = "INFO" -> LevelInfo
      [] l = "WARNING" -> LevelWarning
      [] l = "ERROR" -> LevelError
      [] l = "CRITICAL" -> LevelCritical
      [] OTHER -> LevelInfo

\* The switch on logData.Level in handleBatch.
batchLevel(l) ==
    CASE l = "DEBUG" -> LevelDebug
      [] l = "INFO" -> LevelInfo
      [] l \in {"WARNING", "WARN"} -> LevelWarning
      [] l = "ERROR" -> LevelError
      [] l \in {"CRITICAL", "CRIT"} -> LevelCritical
      [] OTHER -> LevelInfo

\* The entry of handleLogs without the nil check on logData.Fields.
logsEntryFieldsAssigned(d) ==
    [NewLogEntry EXCEPT !.message = d.message,
                        !.source = IF d.source = "" THEN "http" ELSE d.source,
                        !.level = logsLevel(d.level),
                        !.fields = d.fields]

\* The entry handleLogs builds from the decoded object.
logsEntry(d) ==
    LET e == [NewLogEntry EXCEPT !.message = d.message,
                                 !.source = IF d.source = "" THEN "http" ELSE d.source,
                                 !.level = logsLevel(d.level)]
    IN  IF ~d.fields.isNil THEN [e EXCEPT !.fields = d.fields] ELSE e

\* The entry handleBatch builds from one decoded object of the array.
batchEntry(d) ==
    LET e == [NewLogEntry EXCEPT !.message = d.message,
                                 !.source = IF d.source = "" THEN "http" ELSE d.source,
                                 !.level = batchLevel(d.level)]
    IN  IF ~d.fields.isNil THEN [e EXCEPT !.fields = d.fields] ELSE e

\* The goroutine net/http starts for a request that reached the server.
Handler(s, req) ==
    [kind |-> "handler", pc |-> "handle", tok |-> 0, srv |-> s, status |-> 0,
     req |-> req, k |-> 1, accepted |-> 0]

\* A client connects to a listening server and sends one of the requests reqs;
\* the clients send at most max requests in all.
HTTPRequestFrom(s, reqs, max) ==
    /\ DrivesHTTP
    /\ s \in DOMAIN servers
    /\ nSend < max
    /\ servers[s].listening
    /\ nSend' = nSend + 1
    /\ \E req \in reqs : hr_tasks' = Append(hr_tasks, Handler(s, req))
    /\ UNCHANGED <<commonVars, callVars, queue, servers, hr_running, hr_server, hr_out,
                   hr_mu, hrRest>>

HTTPRequest(s) == HTTPRequestFrom(s, BasicRequests, MaxSends)

\* handleLogs with the offer of the file and syslog producers, a send that
\* waits for room in the queue.
handleLogsBlocking(i) ==
    LET t == hr_tasks[i] IN
    /\ i \in DOMAIN hr_tasks
    /\ t.kind = "handler" /\ t.pc = "handle" /\ t.req.ep = "logs"
    /\ IF t.req.method # "POST"
       THEN /\ hr_tasks' = [hr_tasks EXCEPT ![i] = HandlerDone(405, NoResp)]
            /\ UNCHANGED queue
       ELSE IF ~t.req.body.ok
       THEN /\ hr_tasks' = [hr_tasks EXCEPT ![i] = HandlerDone(400, NoResp)]
            /\ UNCHANGED queue
       ELSE LET entry == logsEntry(t.req.body.items[1]) IN
            /\ Len(queue) < QueueCap
            /\ queue' = Append(queue, entry)
            /\ hr_tasks' = [hr_tasks EXCEPT
                   ![i] = HandlerDone(202, [NoResp EXCEPT !.id = entry.id])]
    /\ UNCHANGED <<commonVars, callVars, nSend, servers, hr_running, hr_server, hr_out,
                   hr_mu, hrRest>>

\* handleLogs answering as handleBatch does: 202 also for an entry the full
\* queue refused.
handleLogsAlwaysAccepted(i) ==
    LET t == hr_tasks[i] IN
    /\ i \in DOMAIN hr_tasks
    /\ t.kind = "handler" /\ t.pc = "handle" /\ t.req.ep = "logs"
    /\ IF t.req.method # "POST"
       THEN /\ hr_tasks' = [hr_tasks EXCEPT ![i] = HandlerDone(405, NoResp)]
            /\ UNCHANGED queue
       ELSE IF ~t.req.body.ok
       THEN /\ hr_tasks' = [hr_tasks EXCEPT ![i] = HandlerDone(400, NoResp)]
            /\ UNCHANGED queue
       ELSE LET entry == logsEntry(t.req.body.items[1]) IN
            /\ queue' = IF Len(queue) < QueueCap THEN Append(queue, entry) ELSE queue
            /\ hr_tasks' = [hr_tasks EXCEPT
                   ![i] = HandlerDone(202, [NoResp EXCEPT !.id = entry.id])]
    /\ UNCHANGED <<commonVars, callVars, nSend, servers, hr_running, hr_server, hr_out,
                   hr_mu, hrRest>>

\* handleLogs: method check, decoding, the entry, the non-blocking offer to
\* hr.out and the response.
handleLogs(i) ==
    LET t == hr_tasks[i] IN
    /\ i \in DOMAIN hr_tasks
    /\ t.kind = "handler" /\ t.pc = "handle" /\ t.req.ep = "logs"
    /\ IF t.req.method # "POST"
       THEN /\ hr_tasks' = [hr_tasks EXCEPT ![i] = HandlerDone(405, NoResp)]
            /\ UNCHANGED queue
       ELSE IF ~t.req.body.ok
       THEN /\ hr_tasks' = [hr_tasks EXCEPT ![i] = HandlerDone(400, NoResp)]
            /\ UNCHANGED queue
       ELSE LET entry == logsEntry(t.req.body.items[1]) IN
            IF Len(queue) < QueueCap
            THEN /\ queue' = Append(queue, entry)
                 /\ hr_tasks' = [hr_tasks EXCEPT
                        ![i] = HandlerDone(202, [NoResp EXCEPT !.id = entry.id])]
            ELSE /\ hr_tasks' = [hr_tasks EXCEPT ![i] = HandlerDone(503, NoResp)]
                 /\ UNCHANGED queue
    /\ UNCHANGED <<commonVars, callVars, nSend, servers, hr_running, hr_server, hr_out,
                   hr_mu, hrRest>>

\* handleBatch with accepted++ after the select instead of inside its first
\* case: refused entries are counted too.
handleBatchCountsRefused(i) ==
    LET t == hr_tasks[i]
        logs == t.req.body.items
    IN
    /\ i \in DOMAIN hr_tasks
    /\ t.kind = "handler" /\ t.pc = "handle" /\ t.req.ep = "batch"
    /\ IF t.req.method # "POST"
       THEN /\ hr_tasks' = [hr_tasks EXCEPT ![i] = HandlerDone(405, NoResp)]
            /\ UNCHANGED queue
       ELSE IF ~t.req.body.ok
       THEN /\ hr_tasks' = [hr_tasks EXCEPT ![i] = HandlerDone(400, NoResp)]
            /\ UNCHANGED queue
       ELSE IF t.k <= Len(logs)
       THEN /\ queue' = IF Len(queue) < QueueCap
                        THEN Append(queue, batchEntry(logs[t.k]))
                        ELSE queue
            /\ hr_tasks' = [hr_tasks EXCEPT ![i].k = @ + 1, ![i].accepted = @ + 1]
       ELSE /\ hr_tasks' = [hr_tasks EXCEPT ![i] = HandlerDone(202,
                   [NoResp EXCEPT !.total = Len(logs), !.accepted = t.accepted])]
            /\ UNCHANGED queue
    /\ UNCHANGED <<commonVars, callVars, nSend, servers, hr_running, hr_server, hr_out,
                   hr_mu, hrRest>>

\* handleBatch: method check and decoding, then one turn of the loop over the
\* decoded array (the non-blocking offer of one entry), then the response.
handleBatch(i) ==
    LET t == hr_tasks[i]
        logs == t.req.body.items
    IN
    /\ i \in DOMAIN hr_tasks
    /\ t.kind = "handler" /\ t.pc = "handle" /\ t.req.ep = "batch"
    /\ IF t.req.method # "POST"
       THEN /\ hr_tasks' = [hr_tasks EXCEPT ![i] = HandlerDone(405, NoResp)]
            /\ UNCHANGED queue
       ELSE IF ~t.req.body.ok
       THEN /\ hr_tasks' = [hr_tasks EXCEPT ![i] = HandlerDone(400, NoResp)]
            /\ UNCHANGED queue
       ELSE IF t.k <= Len(logs)
       THEN IF Len(queue) < QueueCap
            THEN /\ queue' = Append(queue, batchEntry(logs[t.k]))
                 /\ hr_tasks' = [hr_tasks EXCEPT ![i].k = @ + 1, ![i].accepted = @ + 1]
            ELSE /\ hr_tasks' = [hr_tasks EXCEPT ![i].k = @ + 1]
                 /\ UNCHANGED queue
       ELSE /\ hr_tasks' = [hr_tasks EXCEPT ![i] = HandlerDone(202,
                   [NoResp EXCEPT !.total = Len(logs), !.accepted = t.accepted])]
            /\ UNCHANGED queue
    /\ UNCHANGED <<commonVars, callVars, nSend, servers, hr_running, hr_server, hr_out,
                   hr_mu, hrRest>>

\* The body of HTTPReceiver.Stop, entered by holder h with hr.mu free: what it
\* leaves in servers, hr_running and hr_mu.  Shutdown returns at once when no
\* connection is active; else the caller waits, still holding hr.mu.
HTTPStopEnter(h) ==
    IF ~hr_running
    THEN UNCHANGED <<hr_running, servers, hr_mu>>
    ELSE /\ hr_running' = FALSE
         /\ servers' = IF hr_server # 0 THEN Shutdown(hr_server) ELSE servers
         /\ hr_mu' = IF hr_server # 0 /\ Active(hr_server) # {} THEN h ELSE "free"

HTTPStopWaits == hr_running /\ hr_server # 0 /\ Active(hr_server) # {}

HTTPStop(u) ==
    /\ DrivesHTTP
    /\ pc[u] = "Stop"
    /\ hr_mu = "free"
    /\ HTTPStopEnter(u)
    /\ IF HTTPStopWaits THEN Goto(u, "Stop_wait") ELSE Return(u, "Stop", "nil")
    /\ UNCHANGED <<commonVars, queue, nSend, hr_server, hr_out, hr_tasks, hrRest>>

\* Shutdown returns: nil once the connections are idle, ctx.Err() after 5 s.
HTTPStopWait(u) ==
    /\ pc[u] = "Stop_wait"
    /\ hr_mu = u
    /\ hr_mu' = "free"
    /\ Return(u, "Stop", IF Active(hr_server) = {} THEN "nil" ELSE "timeout")
    /\ UNCHANGED <<commonVars, queue, nSend, servers, hr_running, hr_server, hr_out,
                   hr_tasks, hrRest>>

\* go func() { <-ctx.Done(); hr.Stop() }()
ctxWatcher(i) ==
    LET t == hr_tasks[i] IN
    /\ i \in DOMAIN hr_tasks
    /\ t.kind = "watch" /\ t.pc = "wait"
    /\ Done(t.tok)
    /\ hr_mu = "free"
    /\ HTTPStopEnter(ToString(i))
    /\ hr_tasks' = IF HTTPStopWaits
                   THEN [hr_tasks EXCEPT ![i].pc = "Stop_wait"]
                   ELSE [hr_tasks EXCEPT ![i] = HrExited("watch", 0)]
    /\ UNCHANGED <<commonVars, callVars, queue, nSend, hr_server, hr_out, hrRest>>

ctxWatcherStopWait(i) ==
    LET t == hr_tasks[i] IN
    /\ i \in DOMAIN hr_tasks
    /\ t.kind = "watch" /\ t.pc = "Stop_wait"
    /\ hr_mu = ToString(i)
    /\ hr_mu' = "free"
    /\ hr_tasks' = [hr_tasks EXCEPT ![i] = HrExited("watch", 0)]
    /\ UNCHANGED <<commonVars, callVars, queue, nSend, servers, hr_running, hr_server,
                   hr_out, hrRest>>

----------------------------------------------------------------------------

\* Most goroutines, sockets and servers one run can create.
MaxSrTasks == MaxStarts + MaxConns
MaxHrTasks == 2 * MaxStarts + MaxBurst

NextEnv ==
    \/ \E u \in Users, t \in 1..NumTokens : CallStart(u, t)
    \/ \E u \in Users : CallStop(u)
    \/ \E t \in 1..NumTokens : cancel(t)
    \/ processLogs

NextFile ==
    \/ \E c \in Chars : AppendFile(c)
    \/ \E u \in Users : FileReaderStartCheck(u)
    \/ \E u \in Users : FileReaderStartOpen(u)
    \/ \E u \in Users : FileReaderStartSeek(u)
    \/ \E u \in Users : FileReaderStop(u)
    \/ \E i \in 1..MaxStarts : readLoopInit(i)
    \/ \E i \in 1..MaxStarts : readLoopCtxDone(i)
    \/ \E i \in 1..MaxStarts : readLoopTick(i)
    \/ \E i \in 1..MaxStarts : readLoopRead(i)
    \/ \E i \in 1..MaxStarts : readLoopOffer(i)
    \/ \E i \in 1..MaxStarts : readLoopOfferCtxDone(i)

NextSyslog ==
    \/ \E u \in Users : SyslogStartCheck(u)
    \/ \E u \in Users : SyslogStartListen(u)
    \/ \E u \in Users : SyslogStartPublish(u)
    \/ \E u \in Users : SyslogStartGo(u)
    \/ \E u \in Users : SyslogStop(u)
    \/ \E u \in Users : SyslogStopWait(u)
    \/ \E k \in 1..MaxStarts : SendUDP(k)
    \/ \E k \in 1..MaxStarts : ConnectTCP(k)
    \/ \E c \in 1..MaxConns : SendLine(c)
    \/ \E i \in 1..MaxSrTasks : srLoopTop(i)
    \/ \E i \in 1..MaxSrTasks : readUDP(i)
    \/ \E i \in 1..MaxSrTasks : acceptTCP(i)
    \/ \E i \in 1..MaxSrTasks : handleTCPConnection(i)
    \/ \E i \in 1..MaxSrTasks : srOffer(i)
    \/ \E i \in 1..MaxSrTasks : srOfferCtxDone(i)

NextHTTP ==
    \/ \E u \in Users : HTTPStartCheck(u)
    \/ \E u \in Users : HTTPStartServer(u)
    \/ \E u \in Users : HTTPStop(u)
    \/ \E u \in Users : HTTPStopWait(u)
    \/ \E i \in 1..MaxHrTasks : ListenAndServe(i)
    \/ \E i \in 1..MaxHrTasks : ServeReturn(i)
    \/ \E k \in 1..MaxStarts : HTTPRequest(k)
    \/ \E i \in 1..MaxHrTasks : handleLogs(i)
    \/ \E i \in 1..MaxHrTasks : handleBatch(i)
    \/ \E i \in 1..MaxHrTasks : ctxWatcher(i)
    \/ \E i \in 1..MaxHrTasks : ctxWatcherStopWait(i)

Next == NextEnv \/ NextFile \/ NextSyslog \/ NextHTTP

Spec == Init /\ [][Next]_vars

----------------------------------------------------------------------------
(* Scheduling.  Every goroutine that can take a step eventually takes one, and
   so does a caller inside Start or Stop; a select with several ready cases
   eventually takes each of them (the runtime picks among ready cases at
   random), which is strong fairness for the ctx.Done() case of readLoop's
   select against its ticker.  Nothing obliges the callers to call, the
   contexts to be cancelled, the peers to send, the file to grow or the
   consumer to drain the channel. *)

CallerStep(u) ==
    \/ FileReaderStartCheck(u) \/ FileReaderStartOpen(u) \/ FileReaderStartSeek(u)
    \/ FileReaderStop(u)
    \/ SyslogStartCheck(u) \/ SyslogStartListen(u) \/ SyslogStartPublish(u)
    \/ SyslogStartGo(u) \/ SyslogStop(u) \/ SyslogStopWait(u)
    \/ HTTPStartCheck(u) \/ HTTPStartServer(u) \/ HTTPStop(u) \/ HTTPStopWait(u)

readLoopStep(i) ==
    \/ readLoopInit(i) \/ readLoopCtxDone(i) \/ readLoopTick(i) \/ readLoopRead(i)
    \/ readLoopOffer(i) \/ readLoopOfferCtxDone(i)

srTaskStep(i) ==
    \/ srLoopTop(i) \/ readUDP(i) \/ acceptTCP(i) \/ handleTCPConnection(i)
    \/ srOffer(i) \/ srOfferCtxDone(i)

hrTaskStep(i) ==
    \/ ListenAndServe(i) \/ ServeReturn(i) \/ handleLogs(i) \/ handleBatch(i)
    \/ ctxWatcher(i)
    \/ ctxWatcherStopWait(i)

FairCallers == \A u \in Users : WF_vars(CallerStep(u))
FairFile == \A i \in 1..MaxStarts : WF_vars(readLoopStep(i)) /\ SF_vars(readLoopCtxDone(i))
FairSyslog == \A i \in 1..MaxSrTasks : WF_vars(srTaskStep(i))
FairHTTP == \A i \in 1..MaxHrTasks : WF_vars(hrTaskStep(i))

\* Every source, under the scheduling above.
FairSpec == Init /\ [][Next]_vars /\ FairCallers /\ FairFile /\ FairSyslog /\ FairHTTP

\* The collector driving a SyslogReceiver (UDP, TCP or an unsupported protocol).
InitSyslog == Init /\ mode \in SyslogModes
NextSyslogRun == NextEnv \/ NextSyslog
SyslogSpec == InitSyslog /\ [][NextSyslogRun]_vars /\ FairCallers /\ FairSyslog

\* Every source, with a consumer that keeps draining the queue.
DrainSpec == Init /\ [][Next]_vars /\ FairCallers /\ FairFile /\ FairSyslog /\ FairHTTP
             /\ WF_vars(processLogs)

\* The collector in service: the callers start the source and never stop it, no
\* context is cancelled, the peers send up to MaxBurst messages and the HTTP
\* clients send any of APIRequests.
NextService ==
    \/ \E u \in Users, t \in 1..NumTokens : CallStart(u, t)
    \/ processLogs
    \/ \E c \in Chars : AppendFile(c)
    \/ \E u \in Users : FileReaderStartCheck(u)
    \/ \E u \in Users : FileReaderStartOpen(u)
    \/ \E u \in Users : FileReaderStartSeek(u)
    \/ \E i \in 1..MaxStarts : readLoopInit(i)
    \/ \E i \in 1..MaxStarts : readLoopTick(i)
    \/ \E i \in 1..MaxStarts : readLoopRead(i)
    \/ \E i \in 1..MaxStarts : readLoopOffer(i)
    \/ \E u \in Users : SyslogStartCheck(u)
    \/ \E u \in Users : SyslogStartListen(u)
    \/ \E u \in Users : SyslogStartPublish(u)
    \/ \E u \in Users : SyslogStartGo(u)
    \/ \E k \in 1..MaxStarts : SendUDPUpTo(k, MaxBurst)
    \/ \E k \in 1..MaxStarts : ConnectTCP(k)
    \/ \E c \in 1..MaxConns : SendLineUpTo(c, MaxBurst)
    \/ \E i \in 1..MaxSrTasks : srLoopTop(i)
    \/ \E i \in 1..MaxSrTasks : readUDP(i)
    \/ \E i \in 1..MaxSrTasks : acceptTCP(i)
    \/ \E i \in 1..MaxSrTasks : handleTCPConnection(i)
    \/ \E i \in 1..MaxSrTasks : srOffer(i)
    \/ \E u \in Users : HTTPStartCheck(u)
    \/ \E u \in Users : HTTPStartServer(u)
    \/ \E i \in 1..MaxHrTasks : ListenAndServe(i)
    \/ \E k \in 1..MaxStarts : HTTPRequestFrom(k, APIRequests, MaxBurst)
    \/ \E i \in 1..MaxHrTasks : handleLogs(i)
    \/ \E i \in 1..MaxHrTasks : handleBatch(i)

ServiceSpec == Init /\ [][NextService]_vars

\* ServiceSpec under the scheduling above; nothing obliges the consumer to drain.
FairServiceSpec ==
    Init /\ [][NextService]_vars /\ FairCallers
    /\ (\A i \in 1..MaxStarts : WF_vars(readLoopStep(i)))
    /\ FairSyslog /\ FairHTTP

\* The SyslogReceiver in service on either transport, with peers that send any
\* of RawMessages.
NextParse ==
    \/ \E u \in Users, t \in 1..NumTokens : CallStart(u, t)
    \/ processLogs
    \/ \E u \in Users : SyslogStartCheck(u)
    \/ \E u \in Users : SyslogStartListen(u)
    \/ \E u \in Users : SyslogStartPublish(u)
    \/ \E u \in Users : SyslogStartGo(u)
    \/ \E k \in 1..MaxStarts : SendUDPFrom(k, RawMessages, MaxSends)
    \/ \E k \in 1..MaxStarts : ConnectTCP(k)
    \/ \E c \in 1..MaxConns : SendLineFrom(c, RawMessages, MaxSends)
    \/ \E i \in 1..MaxSrTasks : srLoopTop(i)
    \/ \E i \in 1..MaxSrTasks : readUDP(i)
    \/ \E i \in 1..MaxSrTasks : acceptTCP(i)
    \/ \E i \in 1..MaxSrTasks : handleTCPConnection(i)
    \/ \E i \in 1..MaxSrTasks : srOffer(i)

ParseSpec == InitSyslog /\ [][NextParse]_vars

\* Several sources in service on one queue and one context: the callers start
\* any of the FileReader, the SyslogReceiver (TCP) and the HTTPReceiver, nobody
\* stops them, and the clients may send a body that does not decode.
SharedRequests == BasicRequests \cup { Request("logs", "POST", FALSE, <<>>) }

InitAll == mode = "all" /\ InitState

NextAll ==
    \/ \E u \in Users, t \in 1..NumTokens : CallStart(u, t)
    \/ processLogs
    \/ \E c \in Chars : AppendFile(c)
    \/ \E u \in Users : FileReaderStartCheck(u)
    \/ \E u \in Users : FileReaderStartOpen(u)
    \/ \E u \in Users : FileReaderStartSeek(u)
    \/ \E i \in 1..MaxStarts : readLoopInit(i)
    \/ \E i \in 1..MaxStarts : readLoopTick(i)
    \/ \E i \in 1..MaxStarts : readLoopRead(i)
    \/ \E i \in 1..MaxStarts : readLoopOffer(i)
    \/ \E u \in Users : SyslogStartCheck(u)
    \/ \E u \in Users : SyslogStartListen(u)
    \/ \E u \in Users : SyslogStartPublish(u)
    \/ \E u \in Users : SyslogStartGo(u)
    \/ \E k \in 1..MaxStarts : ConnectTCP(k)
    \/ \E c \in 1..MaxConns : SendLineUpTo(c, MaxSends)
    \/ \E i \in 1..MaxSrTasks : srLoopTop(i)
    \/ \E i \in 1..MaxSrTasks : acceptTCP(i)
    \/ \E i \in 1..MaxSrTasks : handleTCPConnection(i)
    \/ \E i \in 1..MaxSrTasks : srOffer(i)
    \/ \E u \in Users : HTTPStartCheck(u)
    \/ \E u \in Users : HTTPStartServer(u)
    \/ \E i \in 1..MaxHrTasks : ListenAndServe(i)
    \/ \E k \in 1..MaxStarts : HTTPRequestFrom(k, SharedRequests, MaxSends)
    \/ \E i \in 1..MaxHrTasks : handleLogs(i)
    \/ \E i \in 1..MaxHrTasks : handleBatch(i)

AllSpec == InitAll /\ [][NextAll]_vars

\* The collector driving a FileReader, with a consumer that keeps draining.
InitFile == Init /\ mode = "file"
NextFileRun == NextEnv \/ NextFile
FileDrainSpec ==
    InitFile /\ [][NextFileRun]_vars /\ FairCallers /\ FairFile /\ WF_vars(processLogs)

----------------------------------------------------------------------------
(* Vocabulary of the properties *)

Running ==
    IF mode = "file" THEN fr_running
    ELSE IF mode = "http" THEN hr_running
    ELSE sr_running

\* Everything a source instance holds: flag, resources, queue handle, tasks.
SourceState == <<frVars, srVars, hrVars, queue>>

StartPcs == {"Start", "Start_open", "Start_seek", "Start_listen", "Start_publish",
             "Start_go", "Start_server"}
PastCheckPcs == StartPcs \ {"Start"}
StopPcs == {"Stop", "Stop_wait"}

\* Background tasks that have not exited.
LiveLoops == {i \in DOMAIN fr_loops : fr_loops[i].pc # "exited"}
LiveSrTasks == {i \in DOMAIN sr_tasks : sr_tasks[i].pc # "exited"}
LiveHrTasks == {i \in DOMAIN hr_tasks : hr_tasks[i].pc # "exited"}
NoLiveTask == LiveLoops = {} /\ LiveSrTasks = {} /\ LiveHrTasks = {}

\* No file handle, socket, listener, connection is open and no server listens.
AllClosed ==
    /\ \A h \in DOMAIN handles : ~handles[h].open
    /\ \A k \in DOMAIN socks : ~socks[k].open
    /\ \A c \in DOMAIN conns : ~conns[c].open
    /\ \A k \in DOMAIN servers : ~servers[k].listening

AllCancelled == cancelled = 1..ntok

----------------------------------------------------------------------------
(* C1 *)

\* The step of caller u that leaves the running check of Start.
StartChecked(u) == pc[u] = "Start" /\ pc'[u] # "Start"

\* Found running: the call returns the error and no part of the source changes.
C1_Rejected(u) ==
    (StartChecked(u) /\ Running) =>
        /\ pc'[u] = "idle"
        /\ ret'[u] = Ret("Start", "already_running")
        /\ UNCHANGED SourceState

\* Passing the check needs the flag false and sets it in the same step.
C1_Passed(u) ==
    (StartChecked(u) /\ pc'[u] \in PastCheckPcs) => (~Running /\ Running')

\* While no Stop has been called, at most one Start call is past the check.
C1_OnePastCheck ==
    nStop = 0 => Cardinality({u \in Users : pc[u] \in PastCheckPcs}) <= 1

----------------------------------------------------------------------------
(* C2 *)

StartReturns(u, v) == pc[u] \in StartPcs /\ pc'[u] = "idle" /\ ret'[u] = Ret("Start", v)

\* C2: when Start returns a setup error (file cannot be opened, seek fails,
\* unsupported protocol, address cannot be resolved or bound), the running flag
\* of the instance is false.
C2_NotRunningAfterSetupError ==
    [][\A u \in Users : StartReturns(u, "setup_error") => ~Running']_vars

----------------------------------------------------------------------------
(* C3 *)

\* The resource the running instance produces from is set up: the file is
\* opened, the socket is bound, the HTTP server listens on its address.
SetupSucceeded ==
    IF mode = "file" THEN fr_file # 0
    ELSE IF mode = "http" THEN hr_server # 0 /\ servers[hr_server].listening
    ELSE sr_listener # 0

\* C3: Start returns success only after its setup has succeeded; in particular
\* HTTPReceiver.Start does not return success before its listen address is bound.
C3_SuccessOnlyAfterSetup ==
    [][\A u \in Users : StartReturns(u, "nil") => SetupSucceeded']_vars

----------------------------------------------------------------------------
(* C4 *)

\* Caller u's Stop returns in this step, having found the source running.
StopReturnsFromRunning(u) ==
    /\ pc[u] \in StopPcs
    /\ pc'[u] = "idle"
    /\ pc[u] = "Stop" => Running

\* C4: when Stop returns on a source that was running, every background task of
\* the source has exited and its file handle / socket / listener is closed.
C4_StopWaitsForTasks ==
    [][\A u \in Users : StopReturnsFromRunning(u) => (NoLiveTask' /\ AllClosed')]_vars

----------------------------------------------------------------------------
(* C5 *)

\* C5: every Stop call eventually returns, for every source and from every
\* reachable state, also on a running SyslogReceiver whose token has not been
\* cancelled.
C5_StopReturns ==
    \A u \in Users : (pc[u] \in StopPcs) ~> (pc[u] = "idle")

----------------------------------------------------------------------------
(* C6 *)

\* C6: on a TCP SyslogReceiver whose token is cancelled, a Stop call eventually
\* returns, and returns nil, whether no client connection is open or client
\* connections are open and send nothing.
C6_StopAfterCancelTCP ==
    \A u \in Users :
        (mode = "tcp" /\ AllCancelled /\ pc[u] \in StopPcs)
            ~> (pc[u] = "idle" /\ ret[u] = Ret("Stop", "nil"))

\* Stop has returned nil on a cancelled TCP receiver that was running with an
\* accept loop and a client connection that never sent a line.
C6_Witness ==
    /\ mode = "tcp" /\ AllCancelled
    /\ ~sr_running /\ sr_listener # 0
    /\ nSend = 0
    /\ \E i \in DOMAIN sr_tasks : sr_tasks[i].kind = "conn"
    /\ \E u \in Users : pc[u] = "idle" /\ ret[u] = Ret("Stop", "nil")

----------------------------------------------------------------------------
(* C7 *)

----------------------------------------------------------------------------
(* C8 *)

\* C8: after the token is cancelled and the tasks of the source have exited,
\* the queue is closed for the consumer, so the consumer loop eventually
\* returns.
C8_ConsumerReturns ==
    (AllCancelled /\ NoLiveTask) ~> (consumer = "returned")

----------------------------------------------------------------------------
(* C9 *)

\* C9 (cleanup exactly once): over the whole run, no file handle, UDP socket,
\* TCP listener or HTTP server of the source is closed / shut down more than
\* once, counting the closes done by the source's own background tasks.
C9_CleanupOnce ==
    /\ \A h \in DOMAIN handles : handles[h].closes <= 1
    /\ \A k \in DOMAIN socks : socks[k].closes <= 1
    /\ \A k \in DOMAIN servers : servers[k].shutdowns <= 1

----------------------------------------------------------------------------
(* C10 *)

\* The complete newline-terminated lines of f.
CompleteLines(f) ==
    { SubSeq(f, p[1], p[2]) :
        p \in { q \in (1..Len(f)) \X (1..Len(f)) :
                  /\ q[1] <= q[2]
                  /\ (q[1] = 1 \/ f[q[1] - 1] = NL)
                  /\ f[q[2]] = NL
                  /\ \A k \in q[1]..(q[2] - 1) : f[k] # NL } }

\* C10: every record the FileReader puts in the queue carries exactly one
\* complete newline-terminated line of the file; bytes read before the newline
\* arrived are not lost from it.
C10_RecordsAreCompleteLines ==
    \A k \in DOMAIN queue :
        queue[k].source = "file" => queue[k].message \in CompleteLines(file)

----------------------------------------------------------------------------
(* C11 *)

\* The read loops of the current run that wait for their next poll.
IdleLoops ==
    {i \in DOMAIN fr_loops : /\ fr_loops[i].pc = "select"
                              /\ fr_loops[i].h = fr_file
                              /\ handles[fr_file].open}

\* C11: whenever the FileReader is idle between polls, GetOffset() is the
\* number of file bytes the reader has consumed (the starting offset plus the
\* length of the complete lines read), so that a restart from that offset
\* continues exactly behind the lines already read; this for every way the
\* file grows, appends that end in the middle of a line included.
C11_OffsetIsBytesConsumed ==
    \A i \in IdleLoops : fr_offset = handles[fr_loops[i].h].pos

----------------------------------------------------------------------------
(* C12 *)

\* The complete line of the file that ends with the newline at position p.
LineEndingAt(p) ==
    LET before == {q \in 1..(p - 1) : file[q] = NL}
        start == IF before = {} THEN 1
                 ELSE (CHOOSE q \in before : \A r \in before : r <= q) + 1
    IN  SubSeq(file, start, p)

\* The file holds a complete line ending at p that the running reader has not
\* read yet: its offset is still before p.
LinePending(p) ==
    /\ LiveLoops # {}
    /\ p \in 1..Len(file) /\ file[p] = NL
    /\ fr_offset < p

\* C12: while the FileReader runs, its token is not cancelled and the consumer
\* keeps draining, every complete line that is in the file at Start or is
\* appended later is eventually put in the queue.
C12_EveryLineQueued ==
    \A p \in 1..MaxFileLen :
        LinePending(p) ~>
            \/ p <= Len(file) /\ \E k \in DOMAIN queue : queue[k].message = LineEndingAt(p)
            \/ cancelled # {}
            \/ nStop > 0

----------------------------------------------------------------------------
(* C13 *)

\* This step adds one record with message m at the tail of the queue.
Admits(m) ==
    /\ Len(queue') = Len(queue) + 1
    /\ SubSeq(queue', 1, Len(queue)) = queue
    /\ queue'[Len(queue')].message = m

\* A read loop holding a record either keeps holding it, or the queue admits
\* it, or the loop's token is cancelled.
FileOfferKept(i) ==
    fr_loops[i].pc = "offer" =>
        \/ fr_loops'[i].pc = "offer" /\ fr_loops'[i].line = fr_loops[i].line
        \/ Admits(fr_loops[i].line)
        \/ Done(fr_loops[i].tok)

SyslogOfferKept(i) ==
    sr_tasks[i].pc = "offer" =>
        \/ sr_tasks'[i].pc = "offer" /\ sr_tasks'[i].msg = sr_tasks[i].msg
        \/ Admits(sr_tasks[i].msg)
        \/ Done(sr_tasks[i].tok)

----------------------------------------------------------------------------
(* C14 *)

\* The queue only changes by losing its head or by gaining one record at its tail.
QueueIsFIFO ==
    \/ queue' = queue
    \/ queue # <<>> /\ queue' = Tail(queue)
    \/ Len(queue') = Len(queue) + 1 /\ SubSeq(queue', 1, Len(queue)) = queue

\* How far into the file read loop i has got: the bytes its bufio.Reader has
\* taken from the file less the bytes still in its buffer.  While the loop
\* waits to queue a line, this is where that line ends in the file.
StreamPos(i) == handles[fr_loops[i].h].pos - Len(fr_loops[i].rbuf)

\* A read loop takes the bytes that follow its position in the file, and
\* queues the line it holds before it takes another.
LoopReadsInOrder(i) ==
    /\ fr_loops[i].pc = "read" /\ fr_loops'[i].pc = "offer"
       => /\ StreamPos(i)' > StreamPos(i)
          /\ fr_loops'[i].line = SubSeq(file, StreamPos(i) + 1, StreamPos(i)')
    /\ fr_loops[i].pc = "offer" /\ fr_loops'[i].pc = "read"
       => queue' = Append(queue, parseSimpleLine(fr_loops[i].line))

\* Read loop j gets its line into the queue in this step.
LineQueued(j) ==
    /\ j \in DOMAIN fr_loops
    /\ fr_loops[j].pc = "offer" /\ fr_loops'[j].pc = "read"

\* No line is queued while an earlier line of the file still waits to be queued.
NoLineOvertakes ==
    \A j \in 1..MaxStarts : LineQueued(j) =>
        \A i \in DOMAIN fr_loops : fr_loops[i].pc = "offer" => StreamPos(i) >= StreamPos(j)

\* A syslog task takes the oldest unread message of its socket or connection,
\* holds it unchanged while it waits, and queues it before it reads again.
TaskReadsInOrder(i) ==
    LET t == sr_tasks[i] IN
    /\ t.kind = "udp" /\ t.pc = "io" /\ sr_tasks'[i].pc = "offer"
       => /\ sr_tasks'[i].msg = Head(socks[t.res].pending)
          /\ socks'[t.res].pending = Tail(socks[t.res].pending)
    /\ t.kind = "conn" /\ t.pc = "io" /\ sr_tasks'[i].pc = "offer"
       => /\ sr_tasks'[i].msg = Head(conns[t.res].lines)
          /\ conns'[t.res].lines = Tail(conns[t.res].lines)
    /\ t.pc = "offer" /\ sr_tasks'[i].pc = "offer" => sr_tasks'[i].msg = t.msg
    /\ t.pc = "offer" /\ sr_tasks'[i].pc = "top"
       => queue' = Append(queue, parseSyslogMessage(t.msg))

\* A /batch handler goes through the array from the first object to the last,
\* and what it adds to the queue is the record of the object it is at.
BatchOffersInOrder(i) ==
    LET t == hr_tasks[i] IN
    t.kind = "handler" /\ t.pc = "handle" /\ t.req.ep = "batch" /\ hr_tasks'[i] # t
    => \/ hr_tasks'[i].pc = "exited" /\ queue' = queue
       \/ /\ hr_tasks'[i].pc = "handle"
          /\ hr_tasks'[i].k = t.k + 1
          /\ \/ queue' = queue
             \/ queue' = Append(queue, batchEntry(t.req.body.items[t.k]))

\* Every producer on its own feeds the queue in its arrival order.
EachTaskInOrder ==
    /\ QueueIsFIFO
    /\ \A i \in DOMAIN fr_loops : LoopReadsInOrder(i)
    /\ \A i \in DOMAIN sr_tasks : TaskReadsInOrder(i)
    /\ \A i \in DOMAIN hr_tasks : BatchOffersInOrder(i)

\* C14: the queue is FIFO and the records of one producer reach the consumer in
\* their arrival order: the lines of one file in file order, the datagrams of
\* one UDP socket in the order read, the lines of one TCP connection in the
\* order sent, the admitted items of one /batch request in array order.
C14_ProducerOrder == [][EachTaskInOrder /\ NoLineOvertakes]_vars

----------------------------------------------------------------------------
(* C15 *)

\* Handler i has a request in hand and has not answered it yet.
Handling(i) ==
    /\ i \in DOMAIN hr_tasks
    /\ hr_tasks[i].kind = "handler" /\ hr_tasks[i].pc = "handle"

\* A handler with a request in hand can always take its next step, whatever
\* the queue holds and whatever the other handlers do.
HandlerNeverWaits ==
    \A i \in 1..MaxHrTasks : Handling(i) => ENABLED (handleLogs(i) \/ handleBatch(i))

\* What a handler of a well-formed POST does when it finds the queue full:
\* /logs answers 503; /batch goes on to the next object without counting this
\* one, and answers 202 after the last.  The queue is left as it was.
FullQueueAnswer(i) ==
    LET t == hr_tasks[i]
        n == hr_tasks'[i]
    IN  Handling(i) /\ n # t /\ t.req.method = "POST" /\ t.req.body.ok
        /\ Len(queue) = QueueCap
        => /\ queue' = queue
           /\ t.req.ep = "logs" => n.pc = "exited" /\ n.status = 503
           /\ t.req.ep = "batch" =>
                IF t.k <= Len(t.req.body.items)
                THEN n.pc = "handle" /\ n.k = t.k + 1 /\ n.accepted = t.accepted
                ELSE n.pc = "exited" /\ n.status = 202 /\ n.resp.accepted = t.accepted

\* C15: an HTTP handler never waits for queue capacity.  With a full queue and
\* no consumer draining it every /logs and /batch request still completes with
\* a response (503 for /logs; 202 for /batch, the refused objects not counted),
\* and concurrent requests do not block one another on the queue.
C15_HandlersNeverBlock ==
    /\ []HandlerNeverWaits
    /\ [][\A i \in 1..MaxHrTasks : FullQueueAnswer(i)]_vars
    /\ (\E i \in 1..MaxHrTasks : Handling(i)) ~> (\A i \in 1..MaxHrTasks : ~Handling(i))

\* The queue is full; a /logs request has been answered 503 and a /batch
\* request of two objects has been answered 202 with one object accepted.
C15_Witness ==
    /\ Len(queue) = QueueCap
    /\ \E i \in DOMAIN hr_tasks :
          hr_tasks[i].kind = "handler" /\ hr_tasks[i].pc = "exited" /\ hr_tasks[i].status = 503
    /\ \E j \in DOMAIN hr_tasks :
          /\ hr_tasks[j].kind = "handler" /\ hr_tasks[j].pc = "exited"
          /\ hr_tasks[j].status = 202
          /\ hr_tasks[j].resp.total = 2 /\ hr_tasks[j].resp.accepted = 1

----------------------------------------------------------------------------
(* C16 *)

\* The level a submitted level string stands for.
MappedLevel(l) ==
    IF l = "DEBUG" THEN "DEBUG"
    ELSE IF l = "WARNING" \/ l = "WARN" THEN "WARNING"
    ELSE IF l = "ERROR" THEN "ERROR"
    ELSE IF l = "CRITICAL" \/ l = "CRIT" THEN "CRITICAL"
    ELSE "INFO"

\* The source tag of a submission: the submitted one, "http" when there is none.
SubmittedSource(d) == IF d.source # "" THEN d.source ELSE "http"

\* The queue gained exactly one record, at its tail.
GainedOne ==
    /\ Len(queue') = Len(queue) + 1
    /\ SubSeq(queue', 1, Len(queue)) = queue

Last(q) == q[Len(q)]

\* The step in which handler i answers a request to /logs.
LogsAnswer(i) ==
    LET t == hr_tasks[i]
        n == hr_tasks'[i]
    IN  Handling(i) /\ t.req.ep = "logs" /\ n # t
        => /\ n.pc = "exited"
           /\ IF t.req.method # "POST" THEN n.status = 405 /\ queue' = queue
              ELSE IF ~t.req.body.ok THEN n.status = 400 /\ queue' = queue
              ELSE IF Len(queue) = QueueCap THEN n.status = 503 /\ queue' = queue
              ELSE LET d == t.req.body.items[1] IN
                   /\ n.status = 202
                   /\ GainedOne
                   /\ Last(queue').message = d.message
                   /\ Last(queue').source = SubmittedSource(d)
                   /\ Last(queue').level = MappedLevel(d.level)

\* C16: a request to /logs is answered 405 when its method is not POST, else
\* 400 when its body does not decode, else 202 when the queue admits the record
\* and 503 when the queue is full.  With 202 exactly one record joins the queue,
\* with the submitted message, the submitted source ("http" when none is
\* submitted) and the mapped level; with 400, 405 and 503 the queue is unchanged.
C16_LogsAnswers == [][\A i \in 1..MaxHrTasks : LogsAnswer(i)]_vars

\* The request of TestHTTPReceiver_SingleLog has been answered 202 and its
\* record is in the queue.
C16_Witness ==
    /\ \E i \in DOMAIN hr_tasks :
          /\ hr_tasks[i].kind = "handler" /\ hr_tasks[i].pc = "exited"
          /\ hr_tasks[i].status = 202 /\ hr_tasks[i].resp.total = 0
    /\ queue # <<>>
    /\ Last(queue).level = "ERROR" /\ Last(queue).source = "app" /\ Last(queue).message = "m1"
    /\ nSend = 1

----------------------------------------------------------------------------
(* C17 *)

\* Handler i is at work on a POST to /batch whose body decoded to an array.
InBatch(i) ==
    /\ Handling(i)
    /\ hr_tasks[i].req.ep = "batch"
    /\ hr_tasks[i].req.method = "POST" /\ hr_tasks[i].req.body.ok

\* The count starts at zero and never exceeds the number of objects gone through.
BatchCountInRange ==
    \A i \in 1..MaxHrTasks : InBatch(i) =>
        /\ hr_tasks[i].k = 1 => hr_tasks[i].accepted = 0
        /\ 0 <= hr_tasks[i].accepted
        /\ hr_tasks[i].accepted <= hr_tasks[i].k - 1
        /\ hr_tasks[i].k - 1 <= Len(hr_tasks[i].req.body.items)

\* One step of a /batch handler: it offers the object it is at and moves on,
\* counting the object exactly when its record joined the queue, and refusing
\* it only when the queue is full; after the last object it answers 202 with
\* the length of the array and the count.
BatchStep(i) ==
    LET t == hr_tasks[i]
        n == hr_tasks'[i]
        logs == t.req.body.items
    IN  InBatch(i) /\ n # t
        => IF t.k <= Len(logs)
           THEN /\ n.pc = "handle" /\ n.k = t.k + 1
                /\ \/ /\ GainedOne
                      /\ Last(queue').message = logs[t.k].message
                      /\ n.accepted = t.accepted + 1
                   \/ /\ Len(queue) = QueueCap
                      /\ queue' = queue
                      /\ n.accepted = t.accepted
           ELSE /\ n.pc = "exited" /\ n.status = 202
                /\ n.resp.total = Len(logs)
                /\ n.resp.accepted = t.accepted
                /\ queue' = queue

\* C17: a POST to /batch with an array of n objects is answered 202 with
\* total = n and accepted = the number of records the request added to the
\* queue, between 0 and n, whatever the other producers and the consumer do
\* meanwhile.  A refused object is dropped and the later ones are still offered;
\* an object is refused only when the queue is full.
C17_BatchCounts == []BatchCountInRange /\ [][\A i \in 1..MaxHrTasks : BatchStep(i)]_vars

\* A batch of two objects has been answered with both accepted: the consumer
\* took the first record before the second was offered.
C17_Witness ==
    \E i \in DOMAIN hr_tasks :
        /\ hr_tasks[i].kind = "handler" /\ hr_tasks[i].pc = "exited"
        /\ hr_tasks[i].status = 202
        /\ hr_tasks[i].resp.total = 2 /\ hr_tasks[i].resp.accepted = 2

----------------------------------------------------------------------------
(* C18 *)

\* C18: any two records created by the sources have distinct, non-empty ids
\* (assigned at creation, never changed, and returned in the 202 answer of
\* /logs).  Stated on the records in the queue: each has a non-empty id and no
\* two have the same.
C18_DistinctIds ==
    /\ \A k \in DOMAIN queue : queue[k].id # ""
    /\ \A k1, k2 \in DOMAIN queue : k1 # k2 => queue[k1].id # queue[k2].id

----------------------------------------------------------------------------
(* C19 *)

\* A record has a source tag, a timestamp and a fields mapping.
WellFormed(r) == r.source # "" /\ r.timestamp # ZeroTime /\ ~r.fields.isNil

\* The object handler i is about to turn into a record.
ObjectAt(i) ==
    IF hr_tasks[i].req.ep = "logs"
    THEN hr_tasks[i].req.body.items[1]
    ELSE hr_tasks[i].req.body.items[hr_tasks[i].k]

\* The record a handler queues for an object without a source has source
\* "http", and for an object without fields (absent or null) an empty mapping.
HTTPDefaults(i) ==
    Handling(i) /\ hr_tasks'[i] # hr_tasks[i] /\ queue' # queue
    => /\ ObjectAt(i).source = "" => Last(queue').source = "http"
       /\ ObjectAt(i).fields.isNil =>
             ~Last(queue').fields.isNil /\ Last(queue').fields.kv = {}

\* C19: every record a source puts in the queue has a non-empty source tag, a
\* timestamp set at creation and a non-null fields mapping; an HTTP submission
\* without a source gets "http" and one without fields gets an empty mapping,
\* on /logs and on /batch.
C19_RecordsWellFormed ==
    /\ [](\A k \in DOMAIN queue : WellFormed(queue[k]))
    /\ [][\A i \in 1..MaxHrTasks : HTTPDefaults(i)]_vars

\* A /batch handler has queued the record of its second object, which came
\* without source and without fields.
C19_Witness ==
    /\ queue # <<>>
    /\ Last(queue).source = "http" /\ Last(queue).fields = MakeMap
    /\ Last(queue).message = "m2"
    /\ \E i \in DOMAIN hr_tasks : Handling(i) /\ hr_tasks[i].k = 3

----------------------------------------------------------------------------
(* C20 *)

\* The two endpoints map every level string to the same level.
SameMapping == \A l \in SubmittedLevels : logsLevel(l) = batchLevel(l)

\* The record a handler queues has the level its object's level string stands for.
LevelMapped(i) ==
    Handling(i) /\ hr_tasks'[i] # hr_tasks[i] /\ queue' # queue
    => Last(queue').level = MappedLevel(ObjectAt(i).level)

\* C20: on /logs and on /batch a submitted level string is mapped DEBUG ->
\* DEBUG, INFO -> INFO, WARNING and WARN -> WARNING, ERROR -> ERROR, CRITICAL
\* and CRIT -> CRITICAL, any other string (the empty one and lower-case
\* spellings included) -> INFO, and the two endpoints map every string alike.
C20_LevelMapping ==
    /\ []SameMapping
    /\ [][\A i \in 1..MaxHrTasks : LevelMapped(i)]_vars

\* A /batch handler has queued the record of a first object submitted with
\* level CRIT, and the record's level is CRITICAL.
C20_Witness ==
    /\ queue # <<>>
    /\ Last(queue).level = "CRITICAL"
    /\ \E i \in DOMAIN hr_tasks :
          /\ Handling(i) /\ hr_tasks[i].req.ep = "batch" /\ hr_tasks[i].k = 2
          /\ hr_tasks[i].req.body.items[1].level = "CRIT"
          /\ hr_tasks[i].accepted = 1
    /\ nSend = 1

----------------------------------------------------------------------------
(* C21 *)

\* The values record r has under key in its fields.
FieldValues(r, key) == { p[2] : p \in { q \in r.fields.kv : q[1] = key } }

\* Text m starts with '<' and has its first '>' at an index from 1 to 9
\* (counted from 0), that is at a position from 2 to 10.
HasPriorityTag(m) ==
    /\ m # <<>> /\ m[1] = "<"
    /\ \E e \in 2..10 : e <= Len(m) /\ m[e] = ">" /\ \A j \in 1..(e - 1) : m[j] # ">"

\* The position of the '>' that closes the tag.
TagEnd(m) == CHOOSE e \in 2..10 : e <= Len(m) /\ m[e] = ">" /\ \A j \in 1..(e - 1) : m[j] # ">"

\* The text after the priority tag, the whole text when there is no tag.
Remainder(m) == IF HasPriorityTag(m) THEN SubSeq(m, TagEnd(m) + 1, Len(m)) ELSE m

\* The priority and raw fields of a syslog record are those of its message.
TagExtracted(r) ==
    /\ r.source = "syslog:" \o mode
    /\ FieldValues(r, "raw") = {Remainder(r.message)}
    /\ FieldValues(r, "priority") =
          IF HasPriorityTag(r.message)
          THEN {SubSeq(r.message, 2, TagEnd(r.message) - 1)}
          ELSE {}

\* The record a syslog task queues carries the text the task received.
TextUnchanged(i) ==
    sr_tasks[i].pc = "offer" /\ sr_tasks'[i].pc = "top"
    => GainedOne /\ Last(queue').message = sr_tasks[i].msg

\* C21: for every raw message on either transport, if it starts with '<' and
\* its first '>' is at index 1..9, fields["priority"] is the text between them
\* and fields["raw"] the text after the '>'; otherwise there is no priority
\* field and fields["raw"] is the whole message.  The record's message is the
\* received text unchanged and its source is "syslog:<protocol>".
C21_PriorityTag ==
    /\ [](\A k \in DOMAIN queue : TagExtracted(queue[k]))
    /\ [][\A i \in DOMAIN sr_tasks : TextUnchanged(i)]_vars

\* The record of "<34>Test message", received over TCP, is in the queue with
\* priority "34" and raw "Test message".
C21_Witness ==
    /\ mode = "tcp"
    /\ queue # <<>>
    /\ Last(queue).message = <<"<", "3", "4", ">", "T", "e", "s", "t", " ",
                               "m", "e", "s", "s", "a", "g", "e">>
    /\ <<"priority", <<"3", "4">>>> \in Last(queue).fields.kv
    /\ <<"raw", <<"T", "e", "s", "t", " ", "m", "e", "s", "s", "a", "g", "e">>>>
          \in Last(queue).fields.kv

----------------------------------------------------------------------------
(* C22 *)

\* The keywords, by decreasing precedence, and the level each stands for.
KeywordClasses ==
    << [words |-> { <<"c", "r", "i", "t">>, <<"e", "m", "e", "r", "g">>,
                    <<"a", "l", "e", "r", "t">> },
        level |-> "CRITICAL"],
       [words |-> { <<"e", "r", "r">> }, level |-> "ERROR"],
       [words |-> { <<"w", "a", "r", "n">> }, level |-> "WARNING"],
       [words |-> { <<"d", "e", "b", "u", "g">> }, level |-> "DEBUG"] >>

\* Text contains a keyword of class c.
Matches(c, text) == \E w \in KeywordClasses[c].words : Contains(text, w)

\* The level of the first class, in precedence order, that the text matches.
KeywordLevel(text) ==
    IF \E c \in DOMAIN KeywordClasses : Matches(c, text)
    THEN KeywordClasses[CHOOSE c \in DOMAIN KeywordClasses :
                            Matches(c, text) /\ \A b \in 1..(c - 1) : ~Matches(b, text)].level
    ELSE "INFO"

\* C22: the level of a syslog record is decided on the lower-cased remainder
\* (after a stripped priority tag) by the first match in the order crit, emerg
\* or alert -> CRITICAL; err -> ERROR; warn -> WARNING; debug -> DEBUG; else INFO.
C22_KeywordPrecedence ==
    \A k \in DOMAIN queue :
        queue[k].level = KeywordLevel(ToLower(Remainder(queue[k].message)))

\* A message with both "error" and "critical", the lower one first, is in the
\* queue as CRITICAL.
C22_Witness ==
    /\ mode = "udp"
    /\ queue # <<>>
    /\ Last(queue).message = <<"<", "3", "4", ">", "e", "r", "r", "o", "r", " ",
                               "c", "r", "i", "t", "i", "c", "a", "l">>
    /\ Last(queue).level = "CRITICAL"

----------------------------------------------------------------------------
(* C23 *)

\* The Start calls that have returned success so far.  Each one started, in the
\* step of its return, the first background task of a run: a read loop, a UDP
\* read loop or TCP accept loop, a serve goroutine.
RunsStarted ==
    Len(fr_loops)
    + Cardinality({i \in DOMAIN sr_tasks : sr_tasks[i].kind \in {"udp", "accept"}})
    + Cardinality({i \in DOMAIN hr_tasks : hr_tasks[i].kind = "serve"})

\* C23: over the whole life of one source instance, across any sequence of
\* Start and Stop calls, at most one Start call returns success; a stopped
\* instance never becomes running again.
C23_OneSuccessfulStart == RunsStarted <= 1

----------------------------------------------------------------------------
(* C25 *)

\* C25: a read error other than end-of-file in the FileReader's poll loop is
\* not fatal: the loop stays alive and the source stays running (the read is
\* retried on a later tick).  A loop leaves its read for the next tick, or
\* with a line to queue, never by ending; and the read leaves the flag alone.
C25_ReadErrorNotFatal ==
    [][\A i \in DOMAIN fr_loops :
          fr_loops[i].pc = "read" /\ fr_loops'[i] # fr_loops[i]
          => fr_loops'[i].pc \in {"select", "offer"} /\ fr_running' = fr_running]_vars

----------------------------------------------------------------------------
(* C24: a failure in one source leaves the other sources alone *)

\* What each source owns: its running flag, its resources, its background tasks.
FileReaderState == <<fr_running, fr_file, handles, fr_offset, fr_loops>>
SyslogState == <<sr_running, sr_listener, socks, conns, sr_wg, sr_tasks>>
HTTPState == <<hr_running, hr_server, hr_out, servers, hr_tasks>>

SetupError(u) == ret'[u] = Ret("Start", "setup_error") /\ pc'[u] = "idle"

\* A step in which the FileReader fails: its Start returns a setup error, or a
\* fatal read error ends a read loop.
FileReaderFails ==
    \/ \E u \in Users : pc[u] \in {"Start_open", "Start_seek"} /\ SetupError(u)
    \/ \E i \in DOMAIN fr_loops : fr_loops[i].pc = "read" /\ fr_loops'[i].pc = "exited"

\* A step in which the SyslogReceiver fails: its Start returns a setup error, or
\* a connection is dropped and its reader ends.
SyslogFails ==
    \/ \E u \in Users : pc[u] = "Start_listen" /\ SetupError(u)
    \/ \E i \in DOMAIN sr_tasks : /\ sr_tasks[i].kind = "conn"
                                   /\ sr_tasks[i].pc = "io"
                                   /\ sr_tasks'[i].pc = "exited"

\* A step in which the HTTPReceiver fails: the server cannot bind, or a handler
\* refuses a body that does not decode.
HTTPFails ==
    \/ \E i \in DOMAIN hr_tasks : /\ hr_tasks[i].kind = "serve"
                                   /\ hr_tasks[i].pc = "start"
                                   /\ hr_tasks'[i].pc = "exited"
    \/ \E i \in DOMAIN hr_tasks : /\ hr_tasks[i].kind = "handler"
                                   /\ hr_tasks[i].pc = "handle"
                                   /\ ~hr_tasks[i].req.body.ok
                                   /\ hr_tasks'[i].pc = "exited"

FailureIsLocal ==
    /\ FileReaderFails => UNCHANGED <<SyslogState, HTTPState, cancelled>>
    /\ SyslogFails => UNCHANGED <<FileReaderState, HTTPState, cancelled>>
    /\ HTTPFails => UNCHANGED <<FileReaderState, SyslogState, cancelled>>

\* C24: with several sources on one queue and one token, a step in which one
\* source fails (a setup error from its Start, a fatal read error ending its loop,
\* a dropped TCP connection, a body that does not decode) changes no other
\* source's running flag, resources or background tasks and cancels no token.
C24_FailureIsLocal == [][FailureIsLocal]_vars

\* The FileReader's loop has ended on a read error and a TCP connection has been
\* dropped while the SyslogReceiver is still running and accepting under a token
\* that is not cancelled.
C24_Witness ==
    /\ mode = "all"
    /\ \E i \in DOMAIN fr_loops : fr_loops[i].pc = "exited"
    /\ sr_running
    /\ \E c \in DOMAIN conns : ~conns[c].open
    /\ \E j \in DOMAIN sr_tasks : sr_tasks[j].kind = "accept" /\ sr_tasks[j].pc # "exited"
    /\ cancelled = {}

----------------------------------------------------------------------------
(* C26: read timeouts on the syslog loops *)

\* Task i is in its read (ReadFromUDP, Accept, Scan) with its socket or
\* connection open and nothing to read: the read ends when its deadline passes.
ReadTimesOut(i) ==
    LET t == sr_tasks[i] IN
    /\ t.pc = "io"
    /\ ~Done(t.tok)
    /\ IF t.kind = "conn"
       THEN conns[t.res].open /\ conns[t.res].lines = <<>>
       ELSE socks[t.res].open /\ socks[t.res].pending = <<>>

\* C26: a read that times out while the token is not cancelled sends its loop
\* (readUDP, acceptTCP, handleTCPConnection) back to the top, with the socket or
\* connection still open, and puts no record on the queue.
C26_TimeoutRecovered ==
    [][\A i \in DOMAIN sr_tasks :
         ReadTimesOut(i) /\ sr_tasks'[i] # sr_tasks[i]
         => /\ sr_tasks'[i].pc = "top"
            /\ queue' = queue
            /\ IF sr_tasks[i].kind = "conn"
               THEN conns'[sr_tasks[i].res].open
               ELSE socks'[sr_tasks[i].res].open]_vars

----------------------------------------------------------------------------
(* C27: the read loop and a concurrent Stop *)

\* Loop i takes its read step and the step goes to the file: no complete line
\* is left in the loop's bufio.Reader.
ReadsHandle(i) ==
    /\ fr_loops[i].pc = "read"
    /\ fr_loops'[i] # fr_loops[i]
    /\ ~HasNL(fr_loops[i].rbuf)

\* C27: the handle is assigned, read and closed under the one lock, so a read
\* loop never reads from a handle that Stop has already closed.
C27_NoReadOfClosedHandle ==
    [][\A i \in DOMAIN fr_loops : ReadsHandle(i) => handles[fr_loops[i].h].open]_vars

----------------------------------------------------------------------------
(* C28: Stop racing with Start in the HTTPReceiver *)

HTTPStartInProgress == \E u \in Users : pc[u] \in {"Start", "Start_server"}

\* A server of this receiver accepts connections, or a serve goroutine is about
\* to bind one that has not been shut down.
ServerListensOrWill ==
    \/ \E s \in DOMAIN servers : servers[s].listening
    \/ \E i \in DOMAIN hr_tasks : /\ hr_tasks[i].kind = "serve"
                                   /\ hr_tasks[i].pc = "start"
                                   /\ ~servers[hr_server].inShutdown

\* C28: whenever the HTTPReceiver's running flag is false and no Start is in
\* progress, no server of the receiver is listening or about to listen.
C28_StoppedMeansNoServer ==
    (mode = "http" /\ ~hr_running /\ ~HTTPStartInProgress) => ~ServerListensOrWill

----------------------------------------------------------------------------
(* C29: tasks of an earlier run and the run that follows *)

\* Read loop i ends in this step, with the FileReader running and no Start under
\* way; it belongs to an earlier run when the handle it reads is not the one the
\* FileReader now holds.
LoopOfEarlierRunEnds(i) ==
    /\ fr_loops[i].pc \in {"select", "read", "offer"}
    /\ fr_loops'[i].pc = "exited"
    /\ fr_running
    /\ \A u \in Users : pc[u] \notin {"Start_open", "Start_seek"}
    /\ fr_loops[i].h # fr_file

\* Watcher i calls Stop in this step; it belongs to an earlier run when a later
\* Start has left a watcher of another token behind it.
WatcherOfEarlierRunStops(i) ==
    /\ hr_tasks[i].kind = "watch"
    /\ hr_tasks[i].pc = "wait"
    /\ hr_tasks'[i].pc # "wait"
    /\ \E j \in DOMAIN hr_tasks : /\ j > i
                                   /\ hr_tasks[j].kind = "watch"
                                   /\ hr_tasks[j].tok # hr_tasks[i].tok

\* C29: the end of an earlier run's read loop neither closes the handle of the
\* run that followed nor clears its running flag, and an earlier run's
\* cancellation watcher does not shut down the server of the run that followed.
C29_EarlierRunLeavesLaterRun ==
    [][/\ \A i \in DOMAIN fr_loops :
            LoopOfEarlierRunEnds(i)
            => fr_running' = fr_running /\ handles'[fr_file] = handles[fr_file]
       /\ \A i \in DOMAIN hr_tasks :
            WatcherOfEarlierRunStops(i)
            => hr_running' = hr_running /\ servers' = servers]_vars

----------------------------------------------------------------------------
(* C30: the offset and an offer given up *)

\* Read loop i gives up its offer in this step: it leaves the select on the
\* queue through ctx.Done() and ends.
GivesUpOffer(i) == fr_loops[i].pc = "offer" /\ fr_loops'[i].pc = "exited"

\* C30: the offset never runs ahead of delivery; when cancellation makes the read
\* loop give up an offer, the offset it leaves behind does not count the line
\* that was not delivered.
C30_OffsetExcludesAbandonedLine ==
    [][\A i \in DOMAIN fr_loops :
         GivesUpOffer(i) => fr_offset' = fr_offset - Len(fr_loops[i].line)]_vars

----------------------------------------------------------------------------
(* C31: the running flag after the tasks have gone *)

\* The source was started: a Start got as far as its go statements.
TasksStarted == fr_loops # <<>> \/ sr_tasks # <<>> \/ hr_tasks # <<>>

\* Cancellation has made every background task of a started source exit.
TasksGone == AllCancelled /\ TasksStarted /\ NoLiveTask

\* C31: once cancellation has made all background tasks of a started source
\* exit, its running flag eventually becomes false, unless the user calls Stop:
\* the flag needs no Stop call to follow the tasks.
C31_FlagFollowsTasks == TasksGone ~> (~Running \/ nStop > 0)

============================================================================
